---- MODULE Spec2Model ----
(***************************************************************************)
(* Model of the event attribution pipeline of the LitRPG status-screen     *)
(* scraper: the synchronous attribution engine (ai/event_attributor.py),   *)
(* the bulk (Batch API) engine (ai/batch_processor.py, ai/batch_client.py) *)
(* and the wiki reference cache (ai/wiki_reference.py).                    *)
(*                                                                         *)
(* Conventions.  Python None is the string "None".  A confidence is a      *)
(* record [tag, val]: tag "num" carries the value in hundredths (0.93 is   *)
(* 93), tag "nan" is the float NaN that json.loads accepts.  Strings of    *)
(* the finite name universe are lower-cased and normalised by tables that  *)
(* list the result of the Python string operations on each of them.        *)
(***************************************************************************)
EXTENDS Integers, Sequences, FiniteSets, TLC

VARIABLES
    wiki,          \* WikiReferenceCache: the in-memory lookup tables
    registry,      \* get_wiki_cache(): the module global, the instances, the callers
    proc,          \* process_event_attribution_results: the call in progress
    events,        \* attribution engine: ids of the input events of the chunk
    reply,         \* attribution engine: what the classification service answered
    syncOut,       \* outcome of EventAttributor.attribute_events
    bulkOut,       \* outcome of BatchProcessor._parse_event_attribution_result
    svc,           \* external Batch API: the job as the service holds it
    job,           \* store: the ai_batch_jobs row
    reqs,          \* store: the ai_batch_requests rows, keyed by custom_id
    raw_events,    \* store: attribution columns of raw_events, keyed by event id
    chapter_state, \* store: ai_chapter_state rows, keyed by chapter id
    waiter,        \* BatchClient.wait_for_batch: the polling loop in progress
    clock,         \* time.time(), in poll ticks
    lastRun,       \* outcome of the last process_*_results call
    submitOut,     \* outcome of the last submit_batch call
    sender,        \* AIClient.send_message: the call in progress
    saver,         \* save_attributions / _save_event_attributions: the call in progress
    parser         \* EventParser: the text and what was parsed from it

vars == <<wiki, registry, proc, events, reply, syncOut, bulkOut, svc, job, reqs, raw_events,
          chapter_state, waiter, clock, lastRun, submitOut, sender, saver,
          parser>>

attrVars  == <<events, reply, syncOut, bulkOut>>
batchVars == <<svc, job, reqs, raw_events, chapter_state, waiter, clock, lastRun,
               submitOut>>
otherVars == <<registry, proc, sender, saver, parser>>

None == "None"

----------------------------------------------------------------------------
(* Bounds of the model *)

MaxEvents == 2      \* input events per chunk / event ids in the store
MaxResp   == 2      \* judgments in one service response
MaxChapters == 2    \* chapters whose events can be submitted in the bulk job
MaxClock  == 3      \* poll ticks the clock may reach
MaxRetries == 3     \* largest max_retries an AIClient is built with
MaxRuns   == 3      \* calls of process_*_results on the job

----------------------------------------------------------------------------
(* Wiki reference cache (ai/wiki_reference.py) *)

\* rows of the wiki_characters table: one character with one alias
WikiCharacterRows ==
    { [id |-> "char_erin", name |-> "Erin", aliases |-> {"Innkeeper"}] }

\* rows of wiki_skills / wiki_classes: normalized_name and the is_fake marker
WikiSkillRows ==
    { [normalized_name |-> "basic bite",   is_fake |-> TRUE],
      [normalized_name |-> "power strike", is_fake |-> FALSE] }

WikiClassRows ==
    { [normalized_name |-> "warrior", is_fake |-> FALSE],
      [normalized_name |-> "emperor", is_fake |-> TRUE] }

\* str.lower() on the names of the model's universe
Lower(s) ==
    CASE s = "Erin"      -> "erin"
      [] s = "ERIN"      -> "erin"
      [] s = "Innkeeper" -> "innkeeper"
      [] s = "INNKEEPER" -> "innkeeper"
      [] s = "Nobody"    -> "nobody"
      [] s = "Lyonette"  -> "lyonette"
      [] s = "LYONETTE"  -> "lyonette"
      [] OTHER           -> s

\* WikiReferenceCache.__init__: every table empty, nothing loaded
EmptyWiki ==
    [ characters        |-> << >>,
      character_aliases |-> << >>,
      skills            |-> {},
      classes           |-> {},
      fake_skills       |-> {},
      fake_classes      |-> {},
      loaded            |-> FALSE ]

\* _load_characters: index every row by lower-cased name, every alias by
\* lower-cased alias -> canonical name
LoadCharacters(w, rows) ==
    [ w EXCEPT
        !.characters =
            [ n \in { Lower(r.name) : r \in rows } |->
                CHOOSE r \in rows : Lower(r.name) = n ],
        !.character_aliases =
            [ a \in UNION { { Lower(x) : x \in r.aliases } : r \in rows } |->
                (CHOOSE r \in rows : \E x \in r.aliases : Lower(x) = a).name ] ]

\* _load_skills / _load_classes: index by normalized_name, collect the fakes
LoadSkills(w, rows) ==
    [ w EXCEPT !.skills      = { r.normalized_name : r \in rows },
               !.fake_skills = { r.normalized_name : r \in { x \in rows : x.is_fake } } ]

LoadClasses(w, rows) ==
    [ w EXCEPT !.classes      = { r.normalized_name : r \in rows },
               !.fake_classes = { r.normalized_name : r \in { x \in rows : x.is_fake } } ]

\* WikiReferenceCache.load with every loader succeeding
LoadedWiki ==
    [ LoadClasses(LoadSkills(LoadCharacters(EmptyWiki, WikiCharacterRows),
                             WikiSkillRows), WikiClassRows)
      EXCEPT !.loaded = TRUE ]

\* the value None where a WikiCharacter is expected
NoCharacter == [id |-> None, name |-> None, aliases |-> {}]

\* a lookup that consults the alias table before the canonical names
find_character_alias_first(w, name) ==
    LET name_lower == Lower(name) IN
    IF name_lower \in DOMAIN w.character_aliases
    THEN LET canonical == Lower(w.character_aliases[name_lower]) IN
         IF canonical \in DOMAIN w.characters
         THEN w.characters[canonical] ELSE NoCharacter
    ELSE IF name_lower \in DOMAIN w.characters
         THEN w.characters[name_lower]
         ELSE NoCharacter

\* find_character: canonical names first, then the alias table, else None
find_character(w, name) ==
    LET name_lower == Lower(name) IN
    IF name_lower \in DOMAIN w.characters
    THEN w.characters[name_lower]
    ELSE IF name_lower \in DOMAIN w.character_aliases
         THEN LET canonical == Lower(w.character_aliases[name_lower]) IN
              IF canonical \in DOMAIN w.characters
              THEN w.characters[canonical] ELSE NoCharacter
         ELSE NoCharacter

\* the rows of wiki_characters as fetchall() returns them when several
\* workers populate the cache: the alias of each row is the name of nobody or,
\* in another case, of the other row
RegistryRows ==
    << [id |-> "char_erin",     name |-> "Erin",     aliases |-> {"Innkeeper"}],
       [id |-> "char_lyonette", name |-> "Lyonette", aliases |-> {"ERIN"}] >>

\* the callers of get_wiki_cache()
Workers == {1, 2}

\* a caller that has not asked for the cache yet
IdleWorker ==
    [ pc |-> "idle", inst |-> 0, name |-> None, todo |-> << >>,
      result |-> [status |-> "pending", value |-> NoCharacter],
      seen |-> {} ]

\* module state at import: _wiki_cache = None, no instance constructed
IdleRegistry ==
    [ global |-> 0,
      caches |-> [i \in Workers |-> EmptyWiki],
      w      |-> [k \in Workers |-> IdleWorker] ]

\* no process_event_attribution_results call was made yet.  written and
\* complete are not program state: the custom_ids whose attributions a
\* commit wrote, and whether a call has taken every result of the stream.
IdleProc ==
    [ pc |-> "idle", i |-> 0, results |-> << >>, metadata |-> << >>,
      attributions |-> << >>,
      save_stats |-> [auto_accepted |-> 0, flagged_review |-> 0],
      calls |-> 0, written |-> {}, complete |-> FALSE ]

\* the value of a character lookup that returned
Resolved(id) == [status |-> "returned", exc |-> "", id |-> id]

\* the expression self.wiki_cache.get_character_id(name) of both engines.
\* wiki_cache is the WikiReferenceCache of get_wiki_cache(), a class that
\* neither defines nor inherits an attribute of that name: evaluating the
\* expression raises AttributeError before anything is looked up
get_character_id(w, name) ==
    [status |-> "raised", exc |-> "AttributeError", id |-> None]

\* the bracket texts of the raw_events rows: event 1 names a skill the wiki
\* marks fake, event 2 a real class, any further event a fake class
RawText(event_id) ==
    CASE event_id = 1 -> "[Skill - Basic Bite!]"
      [] event_id = 2 -> "[Warrior Level 5!]"
      [] OTHER        -> "[Emperor Level 5!]"

\* re.search(r'\[(?:Skill|Spell)\s*[-:]\s*([^\]!]+)').group(1).strip()
name_match(event_text) ==
    CASE event_text = "[Skill - Basic Bite!]" -> "Basic Bite"
      [] OTHER -> None

\* re.search(r'\[([^\]]+?)\s+Level\s+\d+').group(1).strip()
class_match(event_text) ==
    CASE event_text = "[Warrior Level 5!]" -> "Warrior"
      [] event_text = "[Emperor Level 5!]" -> "Emperor"
      [] OTHER -> None

\* normalize_ability_name / normalize_class_name: brackets removed,
\* lower-cased, type prefix stripped, whitespace collapsed
normalize_ability_name(name) ==
    CASE name = "Basic Bite" -> "basic bite"
      [] OTHER -> name

normalize_class_name(name) ==
    CASE name = "Warrior" -> "warrior"
      [] name = "Emperor" -> "emperor"
      [] OTHER -> name

SkillEventTypes == {"skill_obtained", "skill_change", "skill_consolidation"}
ClassEventTypes == {"class_obtained", "level_up", "class_evolution"}

\* validate_event: the is_fake entry of the returned dict
validate_event(w, event_type, event_text) ==
    [ is_fake |->
        IF event_type \in SkillEventTypes
        THEN /\ name_match(event_text) # None
             /\ normalize_ability_name(name_match(event_text)) \in w.skills
             /\ normalize_ability_name(name_match(event_text)) \in w.fake_skills
        ELSE IF event_type \in ClassEventTypes
        THEN /\ class_match(event_text) # None
             /\ normalize_class_name(class_match(event_text)) \in w.classes
             /\ normalize_class_name(class_match(event_text)) \in w.fake_classes
        ELSE FALSE ]

----------------------------------------------------------------------------
(* Attribution engine: decision policy of the two paths *)

AUTO_ACCEPT_THRESHOLD == 93

Num(v) == [tag |-> "num", val |-> v]
NaN    == [tag |-> "nan", val |-> 0]

\* Python float comparison: every comparison with NaN is False
Ge(c, t) == c.tag = "num" /\ c.val >= t
Lt(c, t) == c.tag = "num" /\ c.val < t

\* truth value of an Optional[str]
Truthy(s) == s # None /\ s # ""

EventAttribution(event_id, event_type, character_name, character_id, confidence, reasoning, auto_accepted, needs_review) ==
    [ event_id       |-> event_id,
      event_type     |-> event_type,
      character_name |-> character_name,
      character_id   |-> character_id,
      confidence     |-> confidence,
      reasoning      |-> reasoning,
      auto_accepted  |-> auto_accepted,
      needs_review   |-> needs_review ]

\* the attribution both paths synthesise for an event without a judgment
FailedAttribution(event_id, reasoning) ==
    EventAttribution(event_id, "other", None, None, Num(0), reasoning, FALSE, TRUE)

\* the synchronous decision without its false_positive branch
sync_flags_unguarded(event_type, confidence, character_id) ==
    [auto_accepted |-> Ge(confidence, AUTO_ACCEPT_THRESHOLD),
     needs_review  |-> Lt(confidence, AUTO_ACCEPT_THRESHOLD)]

\* event_attributor.py 322-330: the synchronous accept/review decision
sync_flags(event_type, confidence, character_id) ==
    IF event_type = "false_positive"
    THEN [auto_accepted |-> FALSE, needs_review |-> TRUE]
    ELSE [auto_accepted |-> Ge(confidence, AUTO_ACCEPT_THRESHOLD),
          needs_review  |-> Lt(confidence, AUTO_ACCEPT_THRESHOLD)]

\* batch_processor.py 757-766: the bulk accept/review decision
bulk_flags(event_type, confidence, character_id) ==
    IF event_type = "false_positive"
    THEN [auto_accepted |-> FALSE, needs_review |-> TRUE]
    ELSE LET has_character == character_id # None
             auto_accepted == Ge(confidence, AUTO_ACCEPT_THRESHOLD) /\ has_character
         IN  [auto_accepted |-> auto_accepted, needs_review |-> ~auto_accepted]

\* event_attributor.py 318-320: character_id = None, then the lookup if a
\* name was given
sync_character_id(w, character_name) ==
    IF Truthy(character_name) THEN get_character_id(w, character_name)
    ELSE Resolved(None)

\* BatchProcessor._get_character_id behind the guard of its caller
bulk_character_id(w, character_name) ==
    IF ~Truthy(character_name) THEN Resolved(None)
    ELSE get_character_id(w, character_name)

\* a judgment that has no event_type key
Missing == "<missing>"

\* attr.get('event_type', 'other'): the judgment's own string, whatever it
\* is; 'other' only when the key is absent
event_type_of(attr) ==
    IF attr.event_type = Missing THEN "other" ELSE attr.event_type

\* a judgment that has no confidence key
MissingConfidence == [tag |-> "missing", val |-> 0]

\* attr.get('confidence', 0.5): the judgment's own number, whatever it is;
\* 0.5 only when the key is absent
confidence_of(attr) ==
    IF attr.confidence = MissingConfidence THEN Num(50) ELSE attr.confidence

\* one pass of the loop body over a judgment whose event_id is known
SyncAttribution(w, attr) ==
    LET character_id == sync_character_id(w, attr.character_name).id
        f == sync_flags(event_type_of(attr), confidence_of(attr), character_id)
    IN  EventAttribution(attr.event_id, event_type_of(attr), attr.character_name,
                         character_id, confidence_of(attr), attr.reasoning,
                         f.auto_accepted, f.needs_review)

BulkAttribution(w, attr) ==
    LET character_id == bulk_character_id(w, attr.character_name).id
        f == bulk_flags(event_type_of(attr), confidence_of(attr), character_id)
    IN  EventAttribution(attr.event_id, event_type_of(attr), attr.character_name,
                         character_id, confidence_of(attr), attr.reasoning,
                         f.auto_accepted, f.needs_review)

\* some character lookup of the loop raises: the exception leaves the parse
LookupRaises(lookups) ==
    \E i \in DOMAIN lookups : lookups[i].status = "raised"

Range(s) == { s[i] : i \in DOMAIN s }

Returned(attrs) == [status |-> "returned", exc |-> "", attrs |-> attrs]
Raised(exc)     == [status |-> "raised", exc |-> exc, attrs |-> << >>]
Pending         == [status |-> "pending", exc |-> "", attrs |-> << >>]

\* events of the input that no judgment of the response named, in input order
Unprocessed(event_ids, judged, reasoning) ==
    LET processed_ids == { a.event_id : a \in Range(judged) }
        missing == SelectSeq(event_ids, LAMBDA e : e \notin processed_ids)
    IN  [ i \in DOMAIN missing |-> FailedAttribution(missing[i], reasoning) ]

\* EventAttributor._parse_attribution_response.  response.kind is the shape
\* of parsed_json: "none" (no JSON parsed), "empty" ({}), "array" (a JSON
\* value that is not an object) or "object" (attrs = its attributions list)
parse_attribution_response(w, response, original_events) ==
    IF response.kind \in {"none", "empty"}
    THEN Returned([ i \in DOMAIN original_events |->
                      FailedAttribution(original_events[i],
                                        "Failed to parse AI response") ])
    ELSE IF response.kind = "array"
    THEN Raised("AttributeError")
    ELSE LET known == SelectSeq(response.attrs,
                                LAMBDA a : a.event_id \in Range(original_events))
             lookups == [ i \in DOMAIN known |->
                            sync_character_id(w, known[i].character_name) ]
             judged == [ i \in DOMAIN known |-> SyncAttribution(w, known[i]) ]
         IN  IF LookupRaises(lookups)
             THEN Raised("AttributeError")
             ELSE Returned(judged \o Unprocessed(original_events, judged,
                                                 "Event not processed by AI"))

\* BatchProcessor._parse_event_attribution_result
parse_event_attribution_result(w, result, event_ids) ==
    IF result.kind = "array"
    THEN Raised("AttributeError")
    ELSE LET known == IF result.kind = "object"
                      THEN SelectSeq(result.attrs,
                                     LAMBDA a : a.event_id \in Range(event_ids))
                      ELSE << >>
             lookups == [ i \in DOMAIN known |->
                            bulk_character_id(w, known[i].character_name) ]
             judged == [ i \in DOMAIN known |-> BulkAttribution(w, known[i]) ]
         IN  IF LookupRaises(lookups)
             THEN Raised("AttributeError")
             ELSE Returned(judged \o Unprocessed(event_ids, judged,
                                                 "Event not processed by AI"))

BATCH_SIZE == 15

Min(a, b) == IF a <= b THEN a ELSE b

\* EventAttributor.attribute_events: the events in chunks of BATCH_SIZE; a
\* chunk whose service call raises AIError yields failed attributions, any
\* other exception leaves the call
RECURSIVE attribute_chunks(_, _, _, _)
attribute_chunks(w, evs, i, response) ==
    IF i >= Len(evs) THEN Returned(<< >>)
    ELSE LET batch == SubSeq(evs, i + 1, Min(i + BATCH_SIZE, Len(evs)))
             this  == IF response.kind = "ai_error"
                      THEN Returned([ k \in DOMAIN batch |->
                               FailedAttribution(batch[k], "AI processing failed") ])
                      ELSE parse_attribution_response(w, response, batch)
             rest  == attribute_chunks(w, evs, i + BATCH_SIZE, response)
         IN  IF this.status = "raised" THEN this
             ELSE IF rest.status = "raised" THEN rest
             ELSE Returned(this.attrs \o rest.attrs)

attribute_events(w, evs, response) == attribute_chunks(w, evs, 0, response)

----------------------------------------------------------------------------
(* Store and external Batch API before anything was submitted *)

NoJob ==
    [ batch_id |-> None, batch_type |-> None, processing_status |-> None,
      results_processed_at |-> FALSE, total_requests |-> 0 ]

NoService ==
    [status |-> "none", batch_type |-> None, requests |-> << >>, results |-> << >>]

NullConfidence == [tag |-> "null", val |-> 0]

\* a raw_events row the attribution never wrote
Unattributed ==
    [ event_type |-> None, character_id |-> None, ai_confidence |-> NullConfidence,
      ai_reasoning |-> None, is_assigned |-> FALSE, needs_review |-> FALSE ]

IdleWaiter ==
    [ pc |-> "idle", start_time |-> 0, timeout |-> 0,
      error |-> [type |-> None, reason |-> None] ]

NoRun ==
    [ status |-> "none", exc |-> "", dry_run |-> FALSE, meta_ok |-> FALSE,
      opened |-> FALSE, handled |-> 0, produced |-> << >>, runs |-> 0,
      stats |-> [chapters_processed |-> 0, events_processed |-> 0,
                 auto_accepted |-> 0, flagged_review |-> 0, errors |-> 0,
                 characters_found |-> 0] ]

\* no submit_batch call was made yet
NoSubmit == [status |-> "none", exc |-> "", n |-> 0, contacted |-> FALSE]

\* AIClient.__init__ with its default max_retries and retry_delay; no
\* send_message call was made yet
IdleSender ==
    [ pc |-> "idle", max_retries |-> 3, retry_delay |-> 1, attempt |-> 0,
      outcomes |-> << >>, slept |-> << >>, last_error |-> None, exc |-> "" ]

\* neither parse_text nor parse_and_validate was called yet
NotParsed == [status |-> "pending", events |-> << >>, parse_errors |-> << >>]

IdleParser ==
    [ text |-> [closed |-> << >>, brackets |-> << >>, open |-> << >>],
      parsed |-> NotParsed, validated |-> NotParsed ]

\* no save call was made yet
IdleSaver ==
    [ pc |-> "idle", variant |-> "bulk", attributions |-> << >>, i |-> 1,
      conn |-> "none", pending |-> << >>, outcomes |-> << >>, committed |-> FALSE,
      status |-> "none",
      stats |-> [auto_accepted |-> 0, flagged_review |-> 0, failed |-> 0] ]

BatchIdle ==
    /\ svc = NoService
    /\ job = NoJob
    /\ reqs = << >>
    /\ raw_events = [e \in 1..MaxEvents |-> Unattributed]
    /\ chapter_state = << >>
    /\ waiter = IdleWaiter
    /\ clock = 0
    /\ lastRun = NoRun
    /\ submitOut = NoSubmit
    /\ sender = IdleSender
    /\ saver = IdleSaver
    /\ parser = IdleParser

----------------------------------------------------------------------------
(* Bulk processing: submission (ai/batch_processor.py, ai/batch_client.py) *)

Chapters == 1..MaxChapters

\* the chapter owning an event of the store
ChapterOf(e) == ((e - 1) % MaxChapters) + 1

\* the events of a chapter awaiting attribution, ORDER BY event_index
ChapterEventIds(c) ==
    SelectSeq([i \in 1..MaxEvents |-> i], LAMBDA e : ChapterOf(e) = c)

\* the chapters of a set in ascending order
RECURSIVE SortedSeq(_)
SortedSeq(S) ==
    IF S = {} THEN << >>
    ELSE LET m == CHOOSE x \in S : \A y \in S : x <= y
         IN  <<m>> \o SortedSeq(S \ {m})

\* f"event_attr_{chapter_id}" / f"char_extract_{chapter_id}"
CustomId(prefix, chapter_id) == <<prefix, chapter_id>>

\* prepare_event_attribution_batch: one request per chapter that has events,
\* with the metadata {chapter_id, event_ids} kept under its custom_id
prepare_event_attribution_batch(chapter_set) ==
    LET chapters == SelectSeq(SortedSeq(chapter_set),
                              LAMBDA c : ChapterEventIds(c) # << >>)
    IN  [ i \in DOMAIN chapters |->
            [ custom_id  |-> CustomId("event_attr", chapters[i]),
              chapter_id |-> chapters[i],
              event_ids  |-> ChapterEventIds(chapters[i]) ] ]

\* prepare_character_extraction_batch: one request per chapter; no event ids
prepare_character_extraction_batch(chapter_set) ==
    LET chapters == SortedSeq(chapter_set)
    IN  [ i \in DOMAIN chapters |->
            [ custom_id  |-> CustomId("char_extract", chapters[i]),
              chapter_id |-> chapters[i],
              event_ids  |-> << >> ] ]

PrepareBatch(batch_type, chapter_set) ==
    IF batch_type = "event_attribution"
    THEN prepare_event_attribution_batch(chapter_set)
    ELSE prepare_character_extraction_batch(chapter_set)

BatchTypes == {"event_attribution", "character_extraction"}

\* an ai_batch_requests row as submit_batch inserts it
RequestRow(r) ==
    [ chapter_id |-> r.chapter_id, event_ids |-> r.event_ids,
      result_type |-> None, result_processed |-> FALSE, error_message |-> None ]

MAX_BATCH_SIZE == 10000

\* create_batch that hands every list to the service
create_batch_unchecked(n) ==
    [status |-> "returned", exc |-> "", n |-> n, contacted |-> TRUE]

\* BatchClient.create_batch on a list of n requests: the two length checks,
\* then the call of the service (which accepts the batch)
create_batch(n) ==
    IF n > MAX_BATCH_SIZE
    THEN [status |-> "raised", exc |-> "AIError: exceeds maximum", n |-> n,
          contacted |-> FALSE]
    ELSE IF n = 0
    THEN [status |-> "raised", exc |-> "AIError: empty batch", n |-> n,
          contacted |-> FALSE]
    ELSE [status |-> "returned", exc |-> "", n |-> n, contacted |-> TRUE]

\* the lengths of the request list handed to submit_batch: the requests of
\* the chosen chapters alone, or the same list filled up with requests of
\* further chapters to one more than the service limit
RequestCounts(requests) == {Len(requests), MAX_BATCH_SIZE + 1}

\* BatchProcessor.submit_batch on a list of n requests that starts with the
\* requests of chapter_set: create_batch first (an exception leaves the
\* call), then the job row and the request rows in one transaction; dbOk =
\* FALSE is a failure of that transaction (rolled back, exception re-raised)
submit_batch(batch_type, chapter_set, n, dbOk) ==
    LET requests == PrepareBatch(batch_type, chapter_set)
        created  == create_batch(n)
    IN
    /\ svc.status = "none"
    /\ n \in RequestCounts(requests)
    /\ IF created.status = "raised"
       THEN /\ submitOut' = created
            /\ UNCHANGED <<svc, job, reqs>>
       ELSE /\ svc' = [ status |-> "in_progress", batch_type |-> batch_type,
                        requests |-> requests, results |-> << >> ]
            /\ IF dbOk
               THEN /\ job' = [ batch_id |-> "batch_1", batch_type |-> batch_type,
                                processing_status |-> "in_progress",
                                results_processed_at |-> FALSE,
                                total_requests |-> Len(requests) ]
                    /\ reqs' = [ cid \in { r.custom_id : r \in Range(requests) } |->
                                   RequestRow(CHOOSE r \in Range(requests) :
                                                  r.custom_id = cid) ]
                    /\ submitOut' = created
               ELSE /\ submitOut' = [created EXCEPT !.status = "raised",
                                                    !.exc = "DatabaseError"]
                    /\ UNCHANGED <<job, reqs>>
    /\ UNCHANGED <<otherVars, wiki, attrVars, raw_events, chapter_state, waiter, clock,
                   lastRun>>

\* BatchClient.cancel_batch: the service starts cancelling; the store is not touched
cancel_batch ==
    /\ svc.status = "in_progress"
    /\ svc' = [svc EXCEPT !.status = "canceling"]
    /\ UNCHANGED <<otherVars, submitOut, wiki, attrVars, job, reqs, raw_events, chapter_state, waiter,
                   clock, lastRun>>

----------------------------------------------------------------------------
(* External Batch API: the job ends with one result per request *)

\* BatchClient._parse_batch_result for a request that did not succeed
FailedResult(custom_id, result_type) ==
    [ custom_id |-> custom_id, result_type |-> result_type,
      kind |-> "none", attrs |-> << >>,
      error_message |-> IF result_type = "errored"
                        THEN "overloaded_error: Overloaded"
                        ELSE IF result_type = "canceled" THEN "Request canceled"
                        ELSE "Request expired" ]

SucceededResult(custom_id, kind, attrs) ==
    [ custom_id |-> custom_id, result_type |-> "succeeded",
      kind |-> kind, attrs |-> attrs, error_message |-> None ]

\* a confident judgment for every event of the request, all naming the
\* same character or none
ConfidentJudgments(event_ids, character_name) ==
    [ i \in DOMAIN event_ids |->
        [ event_id |-> event_ids[i], event_type |-> "skill_obtained",
          character_name |-> character_name, confidence |-> Num(93),
          reasoning |-> "judged" ] ]

\* the results the service may hold for one request of the job
ResultChoices(r, batch_type) ==
    { FailedResult(r.custom_id, t) : t \in {"errored", "canceled", "expired"} }
    \cup { SucceededResult(r.custom_id, k, << >>) : k \in {"none", "array", "object"} }
    \cup ( IF batch_type = "event_attribution"
           THEN { SucceededResult(r.custom_id, "object",
                                  ConfidentJudgments(r.event_ids, n)) :
                  n \in {None, "Erin"} }
           ELSE { SucceededResult(r.custom_id, "object", <<"Erin">>) } )

\* the result streams for the requests from the i-th on
RECURSIVE ResultStreamsFrom(_, _, _)
ResultStreamsFrom(requests, batch_type, i) ==
    IF i > Len(requests) THEN { << >> }
    ELSE { <<r>> \o rest : r \in ResultChoices(requests[i], batch_type),
                           rest \in ResultStreamsFrom(requests, batch_type, i + 1) }

\* the result streams of a job: one result per request, in request order
ResultStreams(requests, batch_type) == ResultStreamsFrom(requests, batch_type, 1)

\* the service finishes the job (completed, cancelled or expired)
ServiceEnds(results) ==
    /\ svc.status \in {"in_progress", "canceling"}
    /\ svc' = [svc EXCEPT !.status = "ended", !.results = results]
    /\ UNCHANGED <<otherVars, submitOut, wiki, attrVars, job, reqs, raw_events, chapter_state, waiter,
                   clock, lastRun>>

----------------------------------------------------------------------------
(* Bulk processing: status polling *)

\* BatchProcessor.check_batch_status: retrieve the job from the service and
\* store its processing_status in the row WHERE batch_id matches.  A failed
\* retrieval or a failed UPDATE leaves the store as it was.
check_batch_status ==
    /\ svc.status # "none"
    /\ job' = IF job.batch_id # None
              THEN [job EXCEPT !.processing_status = svc.status]
              ELSE job
    /\ UNCHANGED <<otherVars, submitOut, wiki, attrVars, svc, reqs, raw_events, chapter_state, waiter,
                   clock, lastRun>>

NoError       == [type |-> None, reason |-> None]
TimeoutError  == [type |-> "AIError", reason |-> "timed out"]
ServiceError  == [type |-> "AIError", reason |-> "Failed to get batch status"]

\* the timeout arguments tried: 0 stands for None (both are falsy)
TimeoutChoices == {0, 1}

\* BatchClient.wait_for_batch, entry: start_time = time.time()
wait_for_batch(timeout) ==
    /\ waiter.pc # "polling"
    /\ svc.status # "none"
    /\ waiter' = [pc |-> "polling", start_time |-> clock, timeout |-> timeout,
                  error |-> NoError]
    /\ UNCHANGED <<otherVars, submitOut, wiki, attrVars, svc, job, reqs, raw_events, chapter_state,
                   clock, lastRun>>

\* the loop polling through check_batch_status, which stores what it polled
WaitPollStoring(apiOk) ==
    /\ waiter.pc = "polling"
    /\ IF ~apiOk
       THEN /\ waiter' = [waiter EXCEPT !.pc = "failed", !.error = ServiceError]
            /\ UNCHANGED <<clock, job>>
       ELSE /\ job' = IF job.batch_id # None
                      THEN [job EXCEPT !.processing_status = svc.status] ELSE job
            /\ IF svc.status = "ended"
               THEN /\ waiter' = [waiter EXCEPT !.pc = "returned"]
                    /\ UNCHANGED clock
               ELSE IF waiter.timeout # 0 /\ (clock - waiter.start_time) > waiter.timeout
               THEN /\ waiter' = [waiter EXCEPT !.pc = "timed_out", !.error = TimeoutError]
                    /\ UNCHANGED clock
               ELSE /\ clock < MaxClock
                    /\ clock' = clock + 1
                    /\ UNCHANGED waiter
    /\ UNCHANGED <<otherVars, submitOut, wiki, attrVars, svc, reqs, raw_events, chapter_state, lastRun>>

\* a pass of the loop that looks at the timeout before it looks at the status
WaitPoll_timeout_first(apiOk) ==
    /\ waiter.pc = "polling"
    /\ IF ~apiOk
       THEN /\ waiter' = [waiter EXCEPT !.pc = "failed", !.error = ServiceError]
            /\ UNCHANGED clock
       ELSE IF waiter.timeout # 0 /\ (clock - waiter.start_time) > waiter.timeout
       THEN /\ waiter' = [waiter EXCEPT !.pc = "timed_out", !.error = TimeoutError]
            /\ UNCHANGED clock
       ELSE IF svc.status = "ended"
       THEN /\ waiter' = [waiter EXCEPT !.pc = "returned"]
            /\ UNCHANGED clock
       ELSE /\ clock < MaxClock
            /\ clock' = clock + 1
            /\ UNCHANGED waiter
    /\ UNCHANGED <<otherVars, submitOut, wiki, attrVars, svc, job, reqs, raw_events, chapter_state, lastRun>>

\* BatchClient.wait_for_batch, one pass of the while loop: get_batch_status
\* (apiOk = FALSE: the retrieval raises), return when ended, raise when the
\* timeout has elapsed, else sleep one poll interval
WaitPoll(apiOk) ==
    /\ waiter.pc = "polling"
    /\ IF ~apiOk
       THEN /\ waiter' = [waiter EXCEPT !.pc = "failed", !.error = ServiceError]
            /\ UNCHANGED clock
       ELSE IF svc.status = "ended"
       THEN /\ waiter' = [waiter EXCEPT !.pc = "returned"]
            /\ UNCHANGED clock
       ELSE IF waiter.timeout # 0 /\ (clock - waiter.start_time) > waiter.timeout
       THEN /\ waiter' = [waiter EXCEPT !.pc = "timed_out", !.error = TimeoutError]
            /\ UNCHANGED clock
       ELSE /\ clock < MaxClock
            /\ clock' = clock + 1
            /\ UNCHANGED waiter
    /\ UNCHANGED <<otherVars, submitOut, wiki, attrVars, svc, job, reqs, raw_events, chapter_state, lastRun>>

\* time passes outside the sleep
Tick ==
    /\ clock < MaxClock
    /\ clock' = clock + 1
    /\ UNCHANGED <<otherVars, submitOut, wiki, attrVars, svc, job, reqs, raw_events, chapter_state,
                   waiter, lastRun>>

----------------------------------------------------------------------------
(* Bulk processing: result processing *)

\* _get_batch_request_metadata: custom_id -> {chapter_id, event_ids}; a
\* failed read is caught and yields {}
get_batch_request_metadata(rq, dbOk) ==
    IF dbOk
    THEN [ cid \in DOMAIN rq |->
             [chapter_id |-> rq[cid].chapter_id, event_ids |-> rq[cid].event_ids] ]
    ELSE << >>

\* _update_batch_request_result: UPDATE ... WHERE custom_id = %s
update_batch_request_result(rq, custom_id, result_type, error_message) ==
    IF custom_id \in DOMAIN rq
    THEN [ rq EXCEPT ![custom_id] =
             [ @ EXCEPT !.result_type = result_type,
                        !.result_processed = TRUE,
                        !.error_message = error_message ] ]
    ELSE rq

\* the raw_events columns one attribution writes
AttributedRow(attr) ==
    [ event_type |-> attr.event_type, character_id |-> attr.character_id,
      ai_confidence |-> attr.confidence, ai_reasoning |-> attr.reasoning,
      is_assigned |-> attr.auto_accepted, needs_review |-> attr.needs_review ]

\* _save_event_attributions, the rows: one UPDATE ... WHERE id = %s per
\* attribution, in list order
RECURSIVE save_event_rows(_, _, _)
save_event_rows(rows, attributions, i) ==
    IF i > Len(attributions) THEN rows
    ELSE LET attr == attributions[i]
             next == IF attr.event_id \in DOMAIN rows
                     THEN [rows EXCEPT ![attr.event_id] = AttributedRow(attr)]
                     ELSE rows
         IN  save_event_rows(next, attributions, i + 1)

\* _save_event_attributions, the returned counts
save_event_stats(attributions) ==
    [ auto_accepted  |-> Cardinality({ i \in DOMAIN attributions :
                                         attributions[i].auto_accepted }),
      flagged_review |-> Cardinality({ i \in DOMAIN attributions :
                                         /\ ~attributions[i].auto_accepted
                                         /\ attributions[i].needs_review }) ]

NewChapterState ==
    [ events_attributed |-> FALSE, events_processed |-> 0,
      events_auto_accepted |-> 0, events_flagged_review |-> 0,
      characters_extracted |-> FALSE, characters_found |-> 0,
      new_characters_created |-> 0 ]

\* the row of a chapter, or the column defaults of a row to be inserted
ChapterRow(cs, chapter_id) ==
    IF chapter_id \in DOMAIN cs THEN cs[chapter_id] ELSE NewChapterState

\* INSERT ... ON CONFLICT (chapter_id) DO UPDATE leaving row for the chapter
UpsertChapterState(cs, chapter_id, row) ==
    [ c \in DOMAIN cs \cup {chapter_id} |->
        IF c = chapter_id THEN row ELSE cs[c] ]

\* the upsert adding the counts to those of the row
update_chapter_attribution_state_adding(cs, chapter_id, events_processed, auto_accepted, flagged_review) ==
    UpsertChapterState(cs, chapter_id,
        [ ChapterRow(cs, chapter_id) EXCEPT
            !.events_attributed = TRUE,
            !.events_processed = @ + events_processed,
            !.events_auto_accepted = @ + auto_accepted,
            !.events_flagged_review = @ + flagged_review ])

\* _update_chapter_attribution_state
update_chapter_attribution_state(cs, chapter_id, events_processed, auto_accepted, flagged_review) ==
    UpsertChapterState(cs, chapter_id,
        [ ChapterRow(cs, chapter_id) EXCEPT
            !.events_attributed = TRUE,
            !.events_processed = events_processed,
            !.events_auto_accepted = auto_accepted,
            !.events_flagged_review = flagged_review ])

\* _update_chapter_extraction_state
update_chapter_extraction_state(cs, chapter_id, characters_found, new_characters) ==
    UpsertChapterState(cs, chapter_id,
        [ ChapterRow(cs, chapter_id) EXCEPT
            !.characters_extracted = TRUE,
            !.characters_found = characters_found,
            !.new_characters_created = new_characters ])

\* the job marked with a status word no reader of the row knows
update_batch_job_processed_misspelt(j) ==
    [ j EXCEPT !.processing_status = "processed",
               !.results_processed_at = TRUE ]

\* _update_batch_job_processed: mark the job row as fully processed
update_batch_job_processed(j) ==
    [ j EXCEPT !.processing_status = "results_processed",
               !.results_processed_at = TRUE ]

\* _parse_character_extraction_result: the characters named by the content
parse_character_extraction_result(result) ==
    IF result.kind \in {"none", "empty"} THEN Returned(<< >>)
    ELSE IF result.kind = "array" THEN Raised("AttributeError")
    ELSE Returned(result.attrs)

\* _save_extracted_characters: the count it returns.  A character found in
\* the wiki makes it read first_appearance_chapter_id, which WikiCharacter
\* does not have; the exception is caught and 0 returned.  Without a found
\* character no row is updated either.
save_extracted_characters(w, characters, chapter_id) ==
    IF \E i \in DOMAIN characters : find_character(w, characters[i]) # NoCharacter
    THEN 0
    ELSE 0

\* the outcome record of the call that starts now
NextRun == [NoRun EXCEPT !.runs = lastRun.runs + 1]

\* the state one result-processing call works on
ProcessingState(dry_run, metaOk) ==
    [ raw_events |-> raw_events, chapter_state |-> chapter_state, reqs |-> reqs,
      run |-> [NextRun EXCEPT !.status = "running", !.dry_run = dry_run,
                            !.meta_ok = metaOk, !.opened = TRUE] ]

\* chapter_id and event_ids of metadata.get(custom_id, {}); 0 is None
MetaChapter(metadata, custom_id) ==
    IF custom_id \in DOMAIN metadata THEN metadata[custom_id].chapter_id ELSE 0

MetaEvents(metadata, custom_id) ==
    IF custom_id \in DOMAIN metadata THEN metadata[custom_id].event_ids ELSE << >>

\* the loop body that records the request result in a dry run too
HandleEventResult_recording(w, st, result, metadata, dry_run) ==
    LET chapter_id == MetaChapter(metadata, result.custom_id)
        event_ids  == MetaEvents(metadata, result.custom_id)
    IN
    IF result.result_type = "succeeded"
    THEN LET parsed == parse_event_attribution_result(w, result, event_ids)
             save_stats == save_event_stats(parsed.attrs)
         IN
         IF parsed.status = "raised"
         THEN [st EXCEPT !.run.status = "raised", !.run.exc = parsed.exc]
         ELSE [ st EXCEPT
                  !.raw_events = IF dry_run THEN @
                                 ELSE save_event_rows(@, parsed.attrs, 1),
                  !.chapter_state =
                      IF dry_run \/ chapter_id = 0 THEN @
                      ELSE update_chapter_attribution_state(@, chapter_id,
                               Len(event_ids), save_stats.auto_accepted,
                               save_stats.flagged_review),
                  !.reqs = update_batch_request_result(@, result.custom_id,
                                    result.result_type, None),
                  !.run.stats.auto_accepted =
                      IF dry_run THEN @ ELSE @ + save_stats.auto_accepted,
                  !.run.stats.flagged_review =
                      IF dry_run THEN @ ELSE @ + save_stats.flagged_review,
                  !.run.stats.events_processed = @ + Len(event_ids),
                  !.run.stats.chapters_processed = @ + 1,
                  !.run.produced = @ \o parsed.attrs,
                  !.run.handled = @ + 1 ]
    ELSE [ st EXCEPT
             !.reqs = IF dry_run THEN @
                      ELSE update_batch_request_result(@, result.custom_id,
                               result.result_type, result.error_message),
             !.run.stats.errors = @ + 1,
             !.run.handled = @ + 1 ]

\* process_event_attribution_results, the body of the loop for one result
HandleEventResult(w, st, result, metadata, dry_run) ==
    LET chapter_id == MetaChapter(metadata, result.custom_id)
        event_ids  == MetaEvents(metadata, result.custom_id)
    IN
    IF result.result_type = "succeeded"
    THEN LET parsed == parse_event_attribution_result(w, result, event_ids)
             save_stats == save_event_stats(parsed.attrs)
         IN
         IF parsed.status = "raised"
         THEN [st EXCEPT !.run.status = "raised", !.run.exc = parsed.exc]
         ELSE [ st EXCEPT
                  !.raw_events = IF dry_run THEN @
                                 ELSE save_event_rows(@, parsed.attrs, 1),
                  !.chapter_state =
                      IF dry_run \/ chapter_id = 0 THEN @
                      ELSE update_chapter_attribution_state(@, chapter_id,
                               Len(event_ids), save_stats.auto_accepted,
                               save_stats.flagged_review),
                  !.reqs = IF dry_run THEN @
                           ELSE update_batch_request_result(@, result.custom_id,
                                    result.result_type, None),
                  !.run.stats.auto_accepted =
                      IF dry_run THEN @ ELSE @ + save_stats.auto_accepted,
                  !.run.stats.flagged_review =
                      IF dry_run THEN @ ELSE @ + save_stats.flagged_review,
                  !.run.stats.events_processed = @ + Len(event_ids),
                  !.run.stats.chapters_processed = @ + 1,
                  !.run.produced = @ \o parsed.attrs,
                  !.run.handled = @ + 1 ]
    ELSE [ st EXCEPT
             !.reqs = IF dry_run THEN @
                      ELSE update_batch_request_result(@, result.custom_id,
                               result.result_type, result.error_message),
             !.run.stats.errors = @ + 1,
             !.run.handled = @ + 1 ]

\* process_character_extraction_results, the body of the loop for one result
HandleCharacterResult(w, st, result, metadata, dry_run) ==
    LET chapter_id == MetaChapter(metadata, result.custom_id) IN
    IF result.result_type = "succeeded"
    THEN LET parsed == parse_character_extraction_result(result)
             new_count == save_extracted_characters(w, parsed.attrs, chapter_id)
         IN
         IF parsed.status = "raised"
         THEN [st EXCEPT !.run.status = "raised", !.run.exc = parsed.exc]
         ELSE [ st EXCEPT
                  !.chapter_state =
                      IF dry_run \/ chapter_id = 0 THEN @
                      ELSE update_chapter_extraction_state(@, chapter_id,
                               Len(parsed.attrs), new_count),
                  !.reqs = IF dry_run THEN @
                           ELSE update_batch_request_result(@, result.custom_id,
                                    result.result_type, None),
                  !.run.stats.characters_found = @ + Len(parsed.attrs),
                  !.run.stats.chapters_processed = @ + 1,
                  !.run.handled = @ + 1 ]
    ELSE [ st EXCEPT
             !.reqs = IF dry_run THEN @
                      ELSE update_batch_request_result(@, result.custom_id,
                               result.result_type, result.error_message),
             !.run.stats.errors = @ + 1,
             !.run.handled = @ + 1 ]

\* the for loop over get_batch_results: an exception in the body leaves the
\* loop and the call; what the results before it wrote stays written
RECURSIVE ProcessStream(_, _, _, _, _, _, _)
ProcessStream(w, batch_type, results, i, st, metadata, dry_run) ==
    IF i > Len(results) \/ st.run.status = "raised" THEN st
    ELSE ProcessStream(w, batch_type, results, i + 1,
             IF batch_type = "event_attribution"
             THEN HandleEventResult(w, st, results[i], metadata, dry_run)
             ELSE HandleCharacterResult(w, st, results[i], metadata, dry_run),
             metadata, dry_run)

\* the stream in which every request succeeded with unparsable content
PlainResults(requests) ==
    [ i \in DOMAIN requests |-> SucceededResult(requests[i].custom_id, "none", << >>) ]

\* the stream handed out before the job has ended
get_batch_results_early(s) ==
    [ status |-> "returned", exc |-> "",
      results |-> IF s.status = "ended" THEN s.results ELSE PlainResults(s.requests) ]

\* BatchClient.get_batch_results: the results stream of the service, which
\* has one only for a job that ended; before that the retrieval raises
get_batch_results(s) ==
    IF s.status = "ended"
    THEN [status |-> "returned", exc |-> "", results |-> s.results]
    ELSE [status |-> "raised", exc |-> "AIError", results |-> << >>]

\* process_event_attribution_results / process_character_extraction_results,
\* chosen by the batch_type of the job row as batch_process_results does.
\* No job row: ValueError.  The service hands out results of an ended job
\* only; before that get_batch_results raises AIError.
process_results(dry_run, metaOk) ==
    /\ svc.status # "none"
    /\ lastRun.runs < MaxRuns
    /\ IF job.batch_id = None
       THEN /\ lastRun' = [NextRun EXCEPT !.status = "raised", !.exc = "ValueError",
                                        !.dry_run = dry_run]
            /\ UNCHANGED <<job, reqs, raw_events, chapter_state>>
       ELSE IF get_batch_results(svc).status = "raised"
       THEN /\ lastRun' = [NextRun EXCEPT !.status = "raised",
                                        !.exc = get_batch_results(svc).exc,
                                        !.dry_run = dry_run]
            /\ UNCHANGED <<job, reqs, raw_events, chapter_state>>
       ELSE LET metadata == get_batch_request_metadata(reqs, metaOk)
                st == ProcessStream(wiki, job.batch_type,
                                    get_batch_results(svc).results, 1,
                                    ProcessingState(dry_run, metaOk), metadata, dry_run)
                finished == st.run.status # "raised"
            IN  /\ raw_events' = st.raw_events
                /\ chapter_state' = st.chapter_state
                /\ reqs' = st.reqs
                /\ job' = IF finished /\ ~dry_run
                          THEN update_batch_job_processed(job) ELSE job
                /\ lastRun' = IF finished
                              THEN [st.run EXCEPT !.status = "returned"]
                              ELSE st.run
    /\ UNCHANGED <<otherVars, submitOut, wiki, attrVars, svc, waiter, clock>>

BatchInit ==
    /\ wiki = LoadedWiki
    /\ registry = IdleRegistry
    /\ proc = IdleProc
    /\ events = << >>
    /\ reply = [kind |-> "none", attrs |-> << >>]
    /\ syncOut = Pending
    /\ bulkOut = Pending
    /\ BatchIdle

BatchNext ==
    \/ \E t \in BatchTypes, cs \in SUBSET Chapters, dbOk \in BOOLEAN :
          \E n \in RequestCounts(PrepareBatch(t, cs)) : submit_batch(t, cs, n, dbOk)
    \/ cancel_batch
    \/ \E rs \in ResultStreams(svc.requests, svc.batch_type) : ServiceEnds(rs)
    \/ check_batch_status
    \/ \E dry_run \in BOOLEAN, metaOk \in BOOLEAN : process_results(dry_run, metaOk)

SpecBatch == BatchInit /\ [][BatchNext]_vars

\* the polling loop next to submission, cancellation and status checks
WaitNext ==
    \/ \E t \in BatchTypes, cs \in SUBSET Chapters, dbOk \in BOOLEAN :
          \E n \in RequestCounts(PrepareBatch(t, cs)) : submit_batch(t, cs, n, dbOk)
    \/ cancel_batch
    \/ ServiceEnds(PlainResults(svc.requests))
    \/ check_batch_status
    \/ \E t \in TimeoutChoices : wait_for_batch(t)
    \/ \E apiOk \in BOOLEAN : WaitPoll(apiOk)
    \/ Tick

SpecWait == BatchInit /\ [][WaitNext]_vars

----------------------------------------------------------------------------
(* Attribution engine: one chunk of events, one service response, both paths *)

\* an id the response may mention although no input event has it
GhostId == MaxEvents + 1

\* the judgments {event_id, event_type, character_name, confidence, reasoning}
\* the classification service may put into its attributions list
Judgments ==
    [ event_id       : (1..MaxEvents) \cup {GhostId},
      event_type     : {"skill_obtained", "false_positive"},
      character_name : {None, "Erin"},
      confidence     : {Num(92), Num(93), NaN},
      reasoning      : {"judged"} ]

ReplyKinds == {"ai_error", "none", "empty", "array", "object"}

AttrInit ==
    /\ wiki = LoadedWiki
    /\ registry = IdleRegistry
    /\ proc = IdleProc
    /\ events \in { [i \in 1..n |-> i] : n \in 1..MaxEvents }
    /\ reply \in { [kind |-> k, attrs |-> << >>] : k \in ReplyKinds }
    /\ syncOut = Pending
    /\ bulkOut = Pending
    /\ BatchIdle

\* the service adds one judgment to the attributions list of its answer
Judge(j) ==
    /\ reply.kind = "object"
    /\ syncOut.status = "pending"
    /\ Len(reply.attrs) < MaxResp
    /\ reply' = [reply EXCEPT !.attrs = Append(@, j)]
    /\ UNCHANGED <<otherVars, wiki, events, syncOut, bulkOut, batchVars>>

\* EventAttributor.attribute_events on the chunk
AttributeEvents ==
    /\ syncOut.status = "pending"
    /\ syncOut' = attribute_events(wiki, events, reply)
    /\ UNCHANGED <<otherVars, wiki, events, reply, bulkOut, batchVars>>

\* BatchProcessor._parse_event_attribution_result on the same answer,
\* delivered as the content of a succeeded bulk result
ParseBulkResult ==
    /\ syncOut.status # "pending"
    /\ bulkOut.status = "pending"
    /\ reply.kind # "ai_error"
    /\ bulkOut' = parse_event_attribution_result(wiki, reply, events)
    /\ UNCHANGED <<otherVars, wiki, events, reply, syncOut, batchVars>>

AttrNext ==
    \/ \E j \in Judgments : Judge(j)
    \/ AttributeEvents
    \/ ParseBulkResult

SpecAttr == AttrInit /\ [][AttrNext]_vars

\* every attribution either path has produced
Produced == Range(syncOut.attrs) \cup Range(bulkOut.attrs)

\* attributions built from a judgment of the service (not synthesised)
Judged == { a \in Produced : a.reasoning = "judged" }

----------------------------------------------------------------------------
(* C1: every attribution of either path has exactly one of auto_accepted   *)
(* and needs_review set.                                                   *)
C1_ExactlyOneFlag ==
    \A a \in Produced : a.auto_accepted # a.needs_review

(* C2: an attribution that is not a false positive is auto-accepted only   *)
(* with confidence >= 0.93 and a resolved character; an unresolved         *)
(* character forces review.                                                *)
C2_AcceptNeedsCharacter ==
    \A a \in Produced :
        a.event_type # "false_positive" =>
            /\ a.auto_accepted =>
                  Ge(a.confidence, AUTO_ACCEPT_THRESHOLD) /\ a.character_id # None
            /\ a.character_id = None => a.needs_review /\ ~a.auto_accepted

(* C3: a false_positive attribution is always flagged for review and never *)
(* auto-accepted, in both paths.                                           *)
C3_FalsePositiveReviewed ==
    \A a \in Produced :
        a.event_type = "false_positive" => a.needs_review /\ ~a.auto_accepted

C3_Witness ==
    /\ \E a \in Range(syncOut.attrs) :
          a.event_type = "false_positive" /\ a.confidence = Num(93)
    /\ \E a \in Range(bulkOut.attrs) :
          a.event_type = "false_positive" /\ a.confidence = Num(93)

\* out holds exactly one attribution per input event and no other
OnePerEvent(out) ==
    /\ out.status = "returned"
    /\ Len(out.attrs) = Len(events)
    /\ \A e \in Range(events) :
          Cardinality({ i \in DOMAIN out.attrs : out.attrs[i].event_id = e }) = 1

\* an input event the response did not mention is a zero-confidence review
AbsentNotProcessed(out) ==
    \A e \in Range(events) :
        (reply.kind = "object" /\ \A i \in DOMAIN reply.attrs : reply.attrs[i].event_id # e)
        => \E a \in Range(out.attrs) :
              /\ a.event_id = e /\ a.confidence = Num(0)
              /\ a.needs_review /\ ~a.auto_accepted
              /\ a.reasoning = "Event not processed by AI"

\* the responses the guarantee is stated for: a well-formed attributions
\* list (omitting, repeating or inventing event ids) or an AI error
ListedResponse == reply.kind \in {"object", "ai_error"}

(* C4: for every response that omits events, repeats an event id, mentions *)
(* unknown ids or fails with an AI error, the engine outputs exactly one   *)
(* attribution per input event id and none for other ids; an absent event  *)
(* is synthesised as zero-confidence, review-flagged, "not processed".     *)
C4_OneAttributionPerEvent ==
    ListedResponse =>
        /\ syncOut.status # "pending" =>
              OnePerEvent(syncOut) /\ AbsentNotProcessed(syncOut)
        /\ bulkOut.status # "pending" =>
              OnePerEvent(bulkOut) /\ AbsentNotProcessed(bulkOut)

(* C5: for the same judgments the synchronous and the bulk path compute    *)
(* the same auto_accepted and needs_review flags.                          *)
C5_SameFlags ==
    (syncOut.status = "returned" /\ bulkOut.status = "returned") =>
        /\ Len(syncOut.attrs) = Len(bulkOut.attrs)
        /\ \A i \in DOMAIN syncOut.attrs :
              /\ syncOut.attrs[i].auto_accepted = bulkOut.attrs[i].auto_accepted
              /\ syncOut.attrs[i].needs_review = bulkOut.attrs[i].needs_review

\* the registry marks the skill or class named in the text as fake
NamesFake(w, event_text) ==
    \E t \in SkillEventTypes \cup ClassEventTypes :
        validate_event(w, t, event_text).is_fake

(* C8: an event naming a skill or class the registry marks is_fake is      *)
(* attributed as false_positive / needs_review whatever the classifier     *)
(* reported.                                                               *)
C8_FakeRerouted ==
    \A a \in Judged :
        NamesFake(wiki, RawText(a.event_id)) =>
            /\ a.event_type = "false_positive"
            /\ a.needs_review /\ ~a.auto_accepted

----------------------------------------------------------------------------
(* Properties of bulk result processing and the job lifecycle *)

\* the events submitted in the job
SubmittedEvents == UNION { Range(r.event_ids) : r \in Range(svc.requests) }

\* a finished, saving run over an event attribution job whose metadata was read
SavingEventRun ==
    /\ lastRun.status = "returned" /\ ~lastRun.dry_run /\ lastRun.meta_ok
    /\ job.batch_type = "event_attribution"

(* C6: for every errored, canceled or expired result the run records a     *)
(* review-flagged attribution carrying the failure reason for each event   *)
(* of the request, so that as many attributions are produced as events     *)
(* were submitted.                                                         *)
C6_FailuresBecomeAttributions ==
    SavingEventRun =>
        /\ \A i \in DOMAIN svc.results :
              svc.results[i].result_type # "succeeded" =>
                  \A e \in Range(svc.requests[i].event_ids) :
                      \E a \in Range(lastRun.produced) :
                          /\ a.event_id = e
                          /\ a.needs_review /\ ~a.auto_accepted
                          /\ a.reasoning = svc.results[i].error_message
        /\ Len(lastRun.produced) = Cardinality(SubmittedEvents)

(* C7: whatever a result of the stream looks like, every later result is   *)
(* still handled and a saving run marks the job as processed at its end.   *)
C7_BadResultIsolated ==
    (lastRun.opened /\ lastRun.status \in {"returned", "raised"}) =>
        /\ lastRun.status = "returned"
        /\ lastRun.handled = Len(svc.results)
        /\ ~lastRun.dry_run => job.results_processed_at

\* the step in which wait_for_batch gives up on its timeout
TimesOut == waiter.pc = "polling" /\ waiter'.pc = "timed_out"

(* C9 as claimed: a wait_for_batch that times out fails with an error      *)
(* distinct from a service failure and leaves the job row unchanged and    *)
(* still in_progress.                                                      *)
C9_TimeoutLeavesInProgress ==
    [][ (TimesOut /\ job.batch_id # None) =>
            /\ waiter'.error = TimeoutError /\ waiter'.error # ServiceError
            /\ job' = job
            /\ job'.processing_status = "in_progress" ]_vars

(* C9 as amended: a wait_for_batch that times out fails with the timeout   *)
(* error, not the service failure, and leaves the job row and the request  *)
(* rows as they were: the stored status is in_progress or canceling and    *)
(* the job is still held by the service, so a later wait_for_batch polls   *)
(* on without a new submission.                                            *)
C9_TimeoutLeavesRecord ==
    [][ TimesOut =>
            /\ waiter'.error = TimeoutError /\ waiter'.error # ServiceError
            /\ job' = job /\ reqs' = reqs /\ svc' = svc
            /\ svc'.status \in {"in_progress", "canceling"}
            /\ job.batch_id # None =>
                  job'.processing_status \in {"in_progress", "canceling"} ]_vars

C9_Witness ==
    /\ waiter.pc = "timed_out"
    /\ job.batch_id # None
    /\ job.processing_status = "canceling"

JobStored == job.batch_id # None

(* C10 as claimed: the stored status is always in_progress, canceling or   *)
(* ended, changes only to what a poll of the service reported, and never   *)
(* changes once it is ended.                                               *)
C10_ThreeStatuses ==
    /\ [](JobStored => job.processing_status \in {"in_progress", "canceling", "ended"})
    /\ [][ (JobStored /\ job'.processing_status # job.processing_status) =>
              job'.processing_status = svc.status ]_vars
    /\ [][ (JobStored /\ job.processing_status = "ended") =>
              job'.processing_status = "ended" ]_vars

(* C10 as amended: the stored status is always in_progress, canceling,     *)
(* ended or results_processed; it changes only to what a poll of the       *)
(* service reported or to results_processed at the end of a saving result  *)
(* run; once it is ended it only takes the values ended and                *)
(* results_processed.                                                      *)
C10_FourStatuses ==
    /\ [](JobStored => job.processing_status \in
              {"in_progress", "canceling", "ended", "results_processed"})
    /\ [][ (JobStored /\ job'.processing_status # job.processing_status) =>
              \/ job'.processing_status = svc.status /\ lastRun' = lastRun
              \/ /\ job'.processing_status = "results_processed"
                 /\ lastRun'.status = "returned" /\ ~lastRun'.dry_run ]_vars
    /\ [][ (JobStored /\ job.processing_status \in {"ended", "results_processed"}) =>
              job'.processing_status \in {"ended", "results_processed"} ]_vars

C10_Witness ==
    /\ JobStored
    /\ svc.status = "ended"
    /\ job.processing_status = "results_processed"
    /\ lastRun.status = "returned" /\ ~lastRun.dry_run

----------------------------------------------------------------------------
(* Properties of result retrieval, submission limits and persistence *)

\* a step that handles results or writes what a result carries
AppliesResults ==
    \/ raw_events' # raw_events
    \/ chapter_state' # chapter_state
    \/ lastRun' # lastRun /\ lastRun'.handled > 0

RejectedLength(out) ==
    out.status # "none" /\ (out.n = 0 \/ out.n > MAX_BATCH_SIZE)

(* C12: create_batch rejects an empty list and a list longer than          *)
(* MAX_BATCH_SIZE with an AIError before the service is contacted, and the *)
(* submit_batch making the call stores no job row and no request row.      *)
C12_RejectedBeforeService ==
    [][ (submitOut' # submitOut /\ RejectedLength(submitOut')) =>
            /\ submitOut'.status = "raised" /\ ~submitOut'.contacted
            /\ submitOut'.exc \in {"AIError: empty batch", "AIError: exceeds maximum"}
            /\ svc' = svc /\ svc.status = "none"
            /\ job' = job /\ job.batch_id = None
            /\ reqs' = reqs /\ reqs = << >> ]_vars

C12_Witness ==
    /\ submitOut.status = "raised" /\ submitOut.n > MAX_BATCH_SIZE
    /\ svc.status = "none" /\ job.batch_id = None

----------------------------------------------------------------------------
(* Synchronous client: AIClient.send_message (ai/client.py) *)

\* what one call of client.messages.create can end with
ServiceOutcomes == {"ok", "RateLimitError", "APIConnectionError", "APIError"}

\* the errors the except clauses of the loop retry
Retryable == {"RateLimitError", "APIConnectionError"}

RetryDelays == {1, 2}

SendInit ==
    /\ wiki = LoadedWiki
    /\ registry = IdleRegistry
    /\ proc = IdleProc
    /\ events = << >>
    /\ reply = [kind |-> "none", attrs |-> << >>]
    /\ syncOut = Pending
    /\ bulkOut = Pending
    /\ svc = NoService /\ job = NoJob /\ reqs = << >>
    /\ raw_events = [e \in 1..MaxEvents |-> Unattributed]
    /\ chapter_state = << >>
    /\ waiter = IdleWaiter /\ clock = 0
    /\ lastRun = NoRun /\ submitOut = NoSubmit /\ saver = IdleSaver
    /\ parser = IdleParser
    /\ sender \in { [IdleSender EXCEPT !.max_retries = m, !.retry_delay = d] :
                       m \in 0..MaxRetries, d \in RetryDelays }

\* the exception after the for loop
RetriesExhausted == "AIError: Failed after retries"

\* send_message up to the first pass of for attempt in range(max_retries);
\* an empty range goes straight to the raise after the loop
send_message ==
    /\ sender.pc = "idle"
    /\ sender' = IF sender.max_retries <= 0
                 THEN [sender EXCEPT !.pc = "raised", !.exc = RetriesExhausted]
                 ELSE [sender EXCEPT !.pc = "calling", !.attempt = 0]
    /\ UNCHANGED <<proc, registry, wiki, attrVars, batchVars, saver, parser>>

\* the loop retrying every error of the service
ServiceCallRetryAll(outcome) ==
    /\ sender.pc = "calling"
    /\ sender' =
          IF outcome = "ok"
          THEN [sender EXCEPT !.pc = "returned", !.outcomes = Append(@, outcome)]
          ELSE [sender EXCEPT !.pc = "sleeping", !.outcomes = Append(@, outcome),
                              !.last_error = outcome,
                              !.slept = Append(@, sender.retry_delay * (2 ^ sender.attempt))]
    /\ UNCHANGED <<proc, registry, wiki, attrVars, batchVars, saver, parser>>

\* one pass of the try: client.messages.create and the except clause its
\* outcome selects; the sleep of a retried error starts
ServiceCall(outcome) ==
    /\ sender.pc = "calling"
    /\ sender' =
          IF outcome = "ok"
          THEN [sender EXCEPT !.pc = "returned", !.outcomes = Append(@, outcome)]
          ELSE IF outcome \in Retryable
          THEN [sender EXCEPT !.pc = "sleeping", !.outcomes = Append(@, outcome),
                              !.last_error = outcome,
                              !.slept = Append(@, sender.retry_delay * (2 ^ sender.attempt))]
          ELSE [sender EXCEPT !.pc = "raised", !.outcomes = Append(@, outcome),
                              !.exc = "AIError: Anthropic API error"]
    /\ UNCHANGED <<proc, registry, wiki, attrVars, batchVars, saver, parser>>

\* time.sleep(delay) returns: the next pass of the loop, or the raise after it
SleepDone ==
    /\ sender.pc = "sleeping"
    /\ sender' = IF sender.attempt + 1 < sender.max_retries
                 THEN [sender EXCEPT !.pc = "calling", !.attempt = @ + 1]
                 ELSE [sender EXCEPT !.pc = "raised", !.attempt = @ + 1,
                                     !.exc = RetriesExhausted]
    /\ UNCHANGED <<proc, registry, wiki, attrVars, batchVars, saver, parser>>

SendNext ==
    \/ send_message
    \/ \E outcome \in ServiceOutcomes : ServiceCall(outcome)
    \/ SleepDone

SpecSend == SendInit /\ [][SendNext]_vars

\* the call runs on: the service answers every call and every sleep ends
SpecSendFair == SpecSend /\ WF_vars(SendNext)

SendDone == sender.pc \in {"returned", "raised"}

\* what the calls made so far look like
SendCallsBounded ==
    /\ Len(sender.outcomes) <= sender.max_retries \/ sender.outcomes = << >>
    /\ \A k \in DOMAIN sender.outcomes :
          k < Len(sender.outcomes) => sender.outcomes[k] \in Retryable
    /\ \A k \in DOMAIN sender.slept :
          sender.slept[k] = sender.retry_delay * (2 ^ (k - 1))
    /\ Len(sender.slept) =
          Cardinality({ k \in DOMAIN sender.outcomes : sender.outcomes[k] \in Retryable })

\* how a finished call ended
SendOutcome ==
    /\ sender.pc = "returned" =>
          sender.outcomes[Len(sender.outcomes)] = "ok"
    /\ (sender.pc = "raised" /\ sender.exc = RetriesExhausted) =>
          /\ Len(sender.outcomes) = (IF sender.max_retries > 0
                                      THEN sender.max_retries ELSE 0)
          /\ \A k \in DOMAIN sender.outcomes : sender.outcomes[k] \in Retryable
    /\ (sender.outcomes # << >> /\ sender.outcomes[Len(sender.outcomes)] = "APIError") =>
          sender.pc = "raised" /\ sender.exc = "AIError: Anthropic API error"
    /\ (sender.outcomes # << >> /\ sender.outcomes[Len(sender.outcomes)] = "ok") =>
          sender.pc = "returned"

(* C13: send_message terminates under every sequence of service outcomes.  *)
(* It returns on the first successful call, retries only rate-limit and    *)
(* connection errors, sleeps retry_delay * 2^attempt after each of them,   *)
(* makes at most max_retries calls and then raises AIError; any other API  *)
(* error is raised as AIError at once, without a further call.             *)
C13_SendTerminates ==
    /\ [](SendCallsBounded /\ SendOutcome)
    /\ [][SendDone => sender' = sender]_vars
    /\ <>SendDone

C13_Witness ==
    /\ sender.pc = "raised" /\ sender.exc = RetriesExhausted
    /\ sender.max_retries = 3 /\ sender.retry_delay = 2
    /\ sender.slept = <<2, 4, 8>>

----------------------------------------------------------------------------
(* Re-application of results *)

\* the last run saved what it handled, with the request metadata at hand
SavingRun ==
    /\ lastRun.opened /\ ~lastRun.dry_run /\ lastRun.meta_ok
    /\ lastRun.status \in {"returned", "raised"}

ProducedFor(ids) == { a \in Range(lastRun.produced) : a.event_id \in Range(ids) }

\* the last run handled every result of an event_attribution job
HandledEventResults ==
    /\ lastRun.status = "returned"
    /\ job.batch_type = "event_attribution"

\* C16: every result of a bulk job is processed against exactly the chapter
\* and the event ids recorded for its custom_id at submission: the recorded
\* events of a succeeded result each get an attribution, distinct chapters
\* have distinct custom_ids, and no attribution is made for an event of
\* another chapter.
C16_ResultMatchesSubmission ==
    /\ \A c1, c2 \in DOMAIN reqs :
           reqs[c1].chapter_id = reqs[c2].chapter_id => c1 = c2
    /\ HandledEventResults =>
         \A i \in DOMAIN svc.results :
            LET result == svc.results[i] IN
            /\ result.custom_id \in DOMAIN reqs
            /\ result.result_type = "succeeded" =>
                 /\ \A e \in Range(reqs[result.custom_id].event_ids) :
                        \E a \in Range(lastRun.produced) : a.event_id = e
                 /\ \A a \in ProducedFor(reqs[result.custom_id].event_ids) :
                        ChapterOf(a.event_id) = reqs[result.custom_id].chapter_id

----------------------------------------------------------------------------
(* Event types of the judgments *)

\* the closed enumeration of event types (ProgressionEvent.event_type, the
\* keys of EventParser.PATTERNS)
EventTypes ==
    { "class_obtained", "class_evolution", "class_consolidation", "class_removed",
      "level_up", "skill_change", "skill_consolidation", "skill_obtained",
      "skill_removed", "spell_obtained", "spell_removed", "condition", "aspect",
      "title", "rank", "other" }

\* judgments whose event_type is of the enumeration, false_positive, a string
\* of neither, or absent
TypedJudgments ==
    [ event_id       : (1..MaxEvents) \cup {GhostId},
      event_type     : {"level_up", "false_positive", "quest_completed", Missing},
      character_name : {None},
      confidence     : {Num(95)},
      reasoning      : {"judged"} ]

TypeNext ==
    \/ \E j \in TypedJudgments : Judge(j)
    \/ AttributeEvents
    \/ ParseBulkResult

SpecType == AttrInit /\ [][TypeNext]_vars

\* C17: an attribution built from a judgment whose event_type is not of the
\* enumeration and not false_positive has event type 'other'; every
\* attribution's event type is of the enumeration or false_positive.
C17_TypeInEnumeration ==
    \A a \in Produced : a.event_type \in EventTypes \cup {"false_positive"}

\* the judgment is missing or malformed: no JSON was parsed, or the JSON
\* has no attributions list ({} or a value that is not an object)
MalformedReply == reply.kind \in {"none", "empty", "array"}

\* the attribution of an event that was not processed
NotProcessed(a) ==
    /\ a.confidence = Num(0)
    /\ a.character_name = None /\ a.character_id = None
    /\ a.needs_review /\ ~a.auto_accepted

\* the parse returned and gave every event of the request such an attribution
AllNotProcessed(out) ==
    /\ out.status = "returned"
    /\ \A e \in Range(events) :
          \E a \in Range(out.attrs) : a.event_id = e /\ NotProcessed(a)

\* C18: when the judgment for a request is missing or malformed, every event
\* of the request receives an attribution with confidence 0, no character,
\* needs_review and not auto_accepted, and no exception reaches the caller.
C18_MalformedNotProcessed ==
    MalformedReply =>
        /\ syncOut.status # "pending" => AllNotProcessed(syncOut)
        /\ bulkOut.status # "pending" => AllNotProcessed(bulkOut)

----------------------------------------------------------------------------
(* Confidence values of the judgments *)

\* judgments whose confidence is inside [0, 1], negative, greater than 1, or
\* absent
ScoredJudgments ==
    [ event_id       : (1..MaxEvents) \cup {GhostId},
      event_type     : {"level_up", "false_positive"},
      character_name : {None},
      confidence     : {Num(95), Num(0 - 20), Num(150), MissingConfidence},
      reasoning      : {"judged"} ]

ScoreNext ==
    \/ \E j \in ScoredJudgments : Judge(j)
    \/ AttributeEvents
    \/ ParseBulkResult

SpecScore == AttrInit /\ [][ScoreNext]_vars

\* C21: every attribution of either path has a confidence within [0, 1],
\* whatever confidence the judgment carries.
C21_ConfidenceInUnitInterval ==
    \A a \in Produced :
       a.confidence.tag = "num" /\ a.confidence.val >= 0 /\ a.confidence.val <= 100

----------------------------------------------------------------------------
(* Saving attributions: EventAttributor.save_attributions and
   BatchProcessor._save_event_attributions, one record at a time.  Both run
   every UPDATE of the list on one pooled connection, inside one transaction
   that is committed after the loop (db/connection.py sets no autocommit). *)

SaveVariants == {"sync", "bulk"}

\* what happens to one record's UPDATE: it is stored, it raises before the
\* statement reaches the server (adapting a parameter), or the server rejects
\* the statement, which puts the transaction into the aborted state
SaveFaults == {"ok", "client", "server"}

SavedKinds == {"accepted", "review", "unflagged", "failed"}

\* the attributions a parse can hand to the save, for event e
SavedAttribution(e, k) ==
    CASE k = "accepted"  -> EventAttribution(e, "skill_obtained", "Erin", "char_erin", Num(95), "judged", TRUE, FALSE)
      [] k = "review"    -> EventAttribution(e, "skill_obtained", None, None, Num(50), "judged", FALSE, TRUE)
      [] k = "unflagged" -> EventAttribution(e, "skill_obtained", "Erin", "char_erin", NaN, "judged", FALSE, FALSE)
      [] OTHER           -> FailedAttribution(e, "Event not processed by AI")

\* the lists of attributions of distinct events, in event order
SaveLists ==
    UNION { LET ids == SortedSeq(S) IN
            { [i \in DOMAIN ids |-> SavedAttribution(ids[i], k[i])] :
                k \in [DOMAIN ids -> SavedKinds] } : S \in SUBSET (1..MaxEvents) }

SaveInit ==
    /\ wiki = LoadedWiki
    /\ registry = IdleRegistry
    /\ proc = IdleProc
    /\ events = << >>
    /\ reply = [kind |-> "none", attrs |-> << >>]
    /\ syncOut = Pending
    /\ bulkOut = Pending
    /\ svc = NoService /\ job = NoJob /\ reqs = << >>
    /\ raw_events = [e \in 1..MaxEvents |-> Unattributed]
    /\ chapter_state = << >>
    /\ waiter = IdleWaiter /\ clock = 0
    /\ lastRun = NoRun /\ submitOut = NoSubmit /\ sender = IdleSender
    /\ parser = IdleParser
    /\ saver \in { [IdleSaver EXCEPT !.variant = v, !.attributions = a] :
                      v \in SaveVariants, a \in SaveLists }

\* the counters after a record whose UPDATE returned
count_saved(variant, stats, attr) ==
    IF attr.auto_accepted
    THEN [stats EXCEPT !.auto_accepted = @ + 1]
    ELSE IF attr.needs_review
         THEN [stats EXCEPT !.flagged_review = @ + 1]
         ELSE IF variant = "sync"
              THEN [stats EXCEPT !.failed = @ + 1]
              ELSE stats

\* conn = get_connection(); cursor = conn.cursor(): a failure is caught by
\* the outer handler, which returns the counters
SaveOpen(connOk) ==
    /\ saver.pc = "idle"
    /\ saver' = IF connOk
                THEN [saver EXCEPT !.pc = "saving", !.conn = "open",
                                   !.pending = raw_events]
                ELSE [saver EXCEPT !.pc = "done", !.status = "returned"]
    /\ UNCHANGED <<proc, registry, wiki, attrVars, batchVars, sender, parser>>

\* one pass of the for loop: cursor.execute(UPDATE raw_events ... WHERE id)
\* inside its own try block.  In an aborted transaction the server refuses
\* every statement that reaches it.
SaveRecord(fault) ==
    /\ saver.pc = "saving"
    /\ saver.i <= Len(saver.attributions)
    /\ LET attr == saver.attributions[saver.i]
           refused == saver.conn = "aborted" /\ fault # "client"
           stored == fault = "ok" /\ saver.conn = "open"
       IN  saver' = [saver EXCEPT
                       !.i = @ + 1,
                       !.outcomes = Append(@, [fault |-> fault, refused |-> refused]),
                       !.conn = IF @ = "open" /\ fault = "server" THEN "aborted" ELSE @,
                       !.pending = IF stored /\ attr.event_id \in DOMAIN @
                                   THEN [@ EXCEPT ![attr.event_id] = AttributedRow(attr)]
                                   ELSE @,
                       !.stats = IF stored
                                 THEN count_saved(saver.variant, @, attr)
                                 ELSE [@ EXCEPT !.failed = @ + 1]]
    /\ UNCHANGED <<proc, registry, wiki, attrVars, batchVars, sender, parser>>

\* conn.commit() after the loop, and the return.  Committing an aborted
\* transaction rolls it back without an exception; a commit that raises is
\* caught by the outer handler, which rolls back and returns the counters.
SaveCommit(commitOk) ==
    /\ saver.pc = "saving"
    /\ saver.i > Len(saver.attributions)
    /\ raw_events' = IF commitOk /\ saver.conn = "open" THEN saver.pending
                     ELSE raw_events
    /\ saver' = [saver EXCEPT !.pc = "done", !.status = "returned",
                              !.committed = commitOk]
    /\ UNCHANGED <<proc, registry, wiki, attrVars, svc, job, reqs, chapter_state, waiter, clock,
                   lastRun, submitOut, sender, parser>>

SaveNext ==
    \/ \E connOk \in BOOLEAN : SaveOpen(connOk)
    \/ \E fault \in SaveFaults : SaveRecord(fault)
    \/ \E commitOk \in BOOLEAN : SaveCommit(commitOk)

SpecSave == SaveInit /\ [][SaveNext]_vars

\* the save call returned after its commit call returned
SaveReturned == saver.pc = "done" /\ saver.committed

\* C15: while a list of attributions is saved, a record whose save fails is
\* counted as failed and every record that did not fail on its own is stored;
\* the call returns to its caller and never raises.
C15_FailureIsolated ==
    /\ saver.status # "raised"
    /\ SaveReturned =>
         /\ Cardinality({ i \in DOMAIN saver.outcomes :
                            saver.outcomes[i].fault # "ok" }) <= saver.stats.failed
         /\ \A i \in DOMAIN saver.attributions :
                saver.outcomes[i].fault = "ok" =>
                  raw_events[saver.attributions[i].event_id]
                    = AttributedRow(saver.attributions[i])

----------------------------------------------------------------------------
(* Event parser (parsers/event_parser.py).  A text is given by the bracket
   annotations in it.  A closed annotation is given either by the groups the
   one pattern of PATTERNS that matches it captures (closed), or by the words
   between its brackets, which parse_text matches against the patterns
   (brackets).  An unclosed annotation at the end of the text is given by the
   group a pattern of INCOMPLETE_PATTERNS captures (open).  Strings are
   sequences of characters; the position of an annotation is its index in
   the text: closed, then brackets, then open. *)

MaxAnnotations == 1     \* closed annotations in one text

IsSpace(c) == c = " "

RECURSIVE lstrip(_)
lstrip(s) == IF s # << >> /\ IsSpace(Head(s)) THEN lstrip(Tail(s)) ELSE s

RECURSIVE rstrip(_)
rstrip(s) ==
    IF s # << >> /\ IsSpace(s[Len(s)]) THEN rstrip(SubSeq(s, 1, Len(s) - 1)) ELSE s

\* str.strip()
strip(s) == rstrip(lstrip(s))

DigitValue(c) == CASE c = "0" -> 0 [] c = "1" -> 1 [] OTHER -> 5

\* int() of a run of digits
RECURSIVE int(_)
int(digits) ==
    IF digits = << >> THEN 0
    ELSE 10 * int(SubSeq(digits, 1, Len(digits) - 1)) + DigitValue(digits[Len(digits)])

LowerChar(c) ==
    CASE c = "A" -> "a" [] c = "C" -> "c" [] c = "L" -> "l" [] c = "M" -> "m"
      [] c = "O" -> "o" [] c = "S" -> "s" [] c = "W" -> "w" [] OTHER -> c

\* str.lower()
lower(s) == [i \in DOMAIN s |-> LowerChar(s[i])]

\* word in s
Contains(s, word) ==
    \E i \in 1..(Len(s) - Len(word) + 1) : SubSeq(s, i, i + Len(word) - 1) = word

\* what ([^\]]+?) can capture before \s+: at least one character, which may
\* be white space
CapturedNames == { <<" ">>, <<"A", "x">>, <<" ", "M", "a", "g", "e">> }

\* what (\d+) can capture
CapturedDigits == { <<"0">>, <<"5">>, <<"1", "0", "1">> }

OtherContent ==
    << "R", "e", "p", "u", "t", "a", "t", "i", "o", "n", " ",
       "I", "n", "c", "r", "e", "a", "s", "e", "d" >>

SingleNameTypes ==
    { "class_obtained", "class_removed", "skill_consolidation", "skill_obtained",
      "skill_removed", "spell_obtained", "spell_removed", "condition", "aspect",
      "title" }

TwoNameTypes == {"class_evolution", "class_consolidation", "skill_change"}

\* the matches of the patterns of PATTERNS: event type and captured groups
ClosedMatches ==
    { [event_type |-> t, groups |-> <<n>>] : t \in SingleNameTypes, n \in CapturedNames }
    \cup { [event_type |-> t, groups |-> <<a, b>>] :
             t \in TwoNameTypes, a \in CapturedNames, b \in CapturedNames }
    \cup { [event_type |-> "level_up", groups |-> <<n, d>>] :
             n \in CapturedNames, d \in CapturedDigits }
    \cup { [event_type |-> "rank", groups |-> <<d, n, r>>] :
             d \in CapturedDigits, n \in CapturedNames,
             r \in CapturedNames \cup {<< >>} }
    \cup { [event_type |-> "other", groups |-> <<OtherContent>>] }

ClassWord == <<"c", "l", "a", "s", "s">>
SkillWord == <<"s", "k", "i", "l", "l">>
LevelWord == <<"l", "e", "v", "e", "l">>

\* the matches of INCOMPLETE_PATTERNS: 1 is the unclosed class bracket, 2 the
\* unclosed skill bracket (its group may be empty and starts with no white
\* space), 3 the unclosed level bracket
OpenMatches ==
    { [pattern |-> k, group |-> g] :
        k \in {1, 3}, g \in CapturedNames \cup {<<"C", "l", "a", "s", "s">>} }
    \cup { [pattern |-> 2, group |-> g] :
             g \in { << >>, <<"A", "x">>, <<"M", "a", "g", "e">>,
                     <<"C", "l", "a", "s", "s">> } }

\* match.group(0) of an unclosed annotation
OpenRawText(m) ==
    CASE m.pattern = 1 -> <<"[">> \o m.group \o <<" ", "C", "l", "a", "s", "s">>
      [] m.pattern = 2 -> <<"[", "S", "k", "i", "l", "l", " ", "-", " ">> \o m.group
      [] OTHER         -> <<"[">> \o m.group \o <<" ", "L", "e", "v", "e", "l">>

RECURSIVE ClosedSeqs(_)
ClosedSeqs(n) ==
    IF n = 0 THEN { << >> }
    ELSE LET shorter == ClosedSeqs(n - 1)
         IN  shorter \cup { Append(c, m) : c \in { x \in shorter : Len(x) = n - 1 },
                                           m \in ClosedMatches }

Texts ==
    { [closed |-> c, brackets |-> << >>, open |-> o] :
        c \in ClosedSeqs(MaxAnnotations),
        o \in { << >> } \cup { <<m>> : m \in OpenMatches } }

ProgressionEvent(event_type, parsed_data, position, is_incomplete) ==
    [ event_type |-> event_type, parsed_data |-> parsed_data,
      position |-> position, is_incomplete |-> is_incomplete ]

\* _create_event: the event of a match, << >> where the code returns None
create_event(m, position) ==
    LET g == m.groups
        t == m.event_type
        name == strip(g[1])
    IN  CASE t \in {"class_obtained", "class_removed"} ->
               IF name = << >> THEN << >>
               ELSE << ProgressionEvent(t, [class_name |-> name], position, FALSE) >>
          [] t = "class_evolution" ->
               IF strip(g[1]) = << >> \/ strip(g[2]) = << >> THEN << >>
               ELSE << ProgressionEvent(t, [old_class |-> strip(g[1]),
                                            new_class |-> strip(g[2])],
                                        position, FALSE) >>
          [] t = "class_consolidation" ->
               IF strip(g[1]) = << >> \/ strip(g[2]) = << >> THEN << >>
               ELSE << ProgressionEvent(t, [old_classes |-> <<strip(g[1]), strip(g[2])>>,
                                            consolidated |-> TRUE],
                                        position, FALSE) >>
          [] t = "level_up" ->
               << ProgressionEvent(t, [class_name |-> name, level |-> int(g[2])],
                                   position, FALSE) >>
          [] t = "skill_change" ->
               IF strip(g[1]) = << >> \/ strip(g[2]) = << >> THEN << >>
               ELSE << ProgressionEvent(t, [old_skill |-> strip(g[1]),
                                            new_skill |-> strip(g[2])],
                                        position, FALSE) >>
          [] t = "skill_consolidation" ->
               IF name = << >> THEN << >>
               ELSE << ProgressionEvent(t, [skill_name |-> name, consolidated |-> TRUE],
                                        position, FALSE) >>
          [] t \in {"skill_obtained", "skill_removed"} ->
               IF name = << >> THEN << >>
               ELSE << ProgressionEvent(t, [skill_name |-> name], position, FALSE) >>
          [] t \in {"spell_obtained", "spell_removed"} ->
               IF name = << >> THEN << >>
               ELSE << ProgressionEvent(t, [spell_name |-> name], position, FALSE) >>
          [] t = "condition" ->
               IF name = << >> THEN << >>
               ELSE << ProgressionEvent(t, [condition_name |-> name], position, FALSE) >>
          [] t = "aspect" ->
               IF name = << >> THEN << >>
               ELSE << ProgressionEvent(t, [aspect_name |-> name], position, FALSE) >>
          [] t = "title" ->
               IF name = << >> THEN << >>
               ELSE << ProgressionEvent(t, [title_name |-> name], position, FALSE) >>
          [] t = "rank" ->
               IF strip(g[2]) = << >> THEN << >>
               ELSE << ProgressionEvent(t, [rank_number |-> int(g[1]),
                                            rank_type |-> strip(g[2]),
                                            rank_name |-> strip(g[3])],
                                        position, FALSE) >>
          [] OTHER ->
               << ProgressionEvent(t, [content |-> name], position, FALSE) >>

\* _create_incomplete_event: the type is read off the words in the raw text
create_incomplete_event(m, position) ==
    LET text_lower == lower(OpenRawText(m))
        name == strip(m.group)
    IN  IF Contains(text_lower, ClassWord)
        THEN << ProgressionEvent("class_obtained", [class_name |-> name], position, TRUE) >>
        ELSE IF Contains(text_lower, SkillWord)
        THEN << ProgressionEvent("skill_obtained", [skill_name |-> name], position, TRUE) >>
        ELSE IF Contains(text_lower, LevelWord)
        THEN << ProgressionEvent("level_up", [class_name |-> name], position, TRUE) >>
        ELSE << >>

\* the keys of PATTERNS in their order
PatternOrder ==
    << "class_obtained", "class_evolution", "class_consolidation", "class_removed",
       "level_up", "skill_change", "skill_consolidation", "skill_obtained",
       "skill_removed", "spell_obtained", "spell_removed", "condition", "aspect",
       "title", "rank", "other" >>

RECURSIVE Concat(_)
Concat(ss) == IF ss = << >> THEN << >> ELSE Head(ss) \o Concat(Tail(ss))

\* events.sort(key=lambda x: x.position)
RECURSIVE SortByPosition(_)
SortByPosition(evs) ==
    IF evs = << >> THEN << >>
    ELSE LET k == CHOOSE i \in DOMAIN evs :
                    \A j \in DOMAIN evs :
                       \/ evs[i].position < evs[j].position
                       \/ evs[i].position = evs[j].position /\ i <= j
         IN  <<evs[k]>> \o SortByPosition([ i \in 1..(Len(evs) - 1) |->
                                              IF i < k THEN evs[i] ELSE evs[i + 1] ])

MaxWords == 4           \* words between the brackets of one annotation

\* the words a bracket interior is made of
Vocabulary ==
    { <<"W", "a", "r", "r", "i", "o", "r">>, <<"C", "l", "a", "s", "s">>,
      <<"O", "b", "t", "a", "i", "n", "e", "d">>,
      <<"O", "b", "t", "a", "i", "n", "e", "d", "!">>,
      <<"L", "e", "v", "e", "l">>, <<"5">>, <<"S", "k", "i", "l", "l", ":">> }

RECURSIVE Interiors(_)
Interiors(n) ==
    IF n = 0 THEN { << >> }
    ELSE LET shorter == Interiors(n - 1)
         IN  shorter \cup { Append(w, v) : w \in { x \in shorter : Len(x) = n - 1 },
                                           v \in Vocabulary }

\* the words of an interior with one blank between them
RECURSIVE Join(_)
Join(words) ==
    IF words = << >> THEN << >>
    ELSE IF Len(words) = 1 THEN words[1]
    ELSE words[1] \o <<" ">> \o Join(Tail(words))

\* tok is word, with its first letter in either case
KeywordIs(tok, word) ==
    tok # << >> /\ LowerChar(Head(tok)) = Head(word) /\ Tail(tok) = Tail(word)

\* tok is one of the words, with its first letter in either case, and an
\* optional "!" after it
KeywordBang(tok, words) ==
    \E word \in words :
       \/ KeywordIs(tok, word)
       \/ tok # << >> /\ tok[Len(tok)] = "!"
                      /\ KeywordIs(SubSeq(tok, 1, Len(tok) - 1), word)

IsDigits(tok) == tok # << >> /\ \A i \in DOMAIN tok : tok[i] \in {"0", "1", "5"}

\* tok is a run of digits with an optional "!" after it
DigitsBang(tok) ==
    \/ IsDigits(tok)
    \/ tok # << >> /\ tok[Len(tok)] = "!" /\ IsDigits(SubSeq(tok, 1, Len(tok) - 1))

DigitsOf(tok) == IF tok[Len(tok)] = "!" THEN SubSeq(tok, 1, Len(tok) - 1) ELSE tok

ObtainedWord == <<"o", "b", "t", "a", "i", "n", "e", "d">>
GainedWord   == <<"g", "a", "i", "n", "e", "d">>
AcquiredWord == <<"a", "c", "q", "u", "i", "r", "e", "d">>
LearnedWord  == <<"l", "e", "a", "r", "n", "e", "d">>

\* the endings of the catch-all pattern
OtherEndings ==
    { ObtainedWord, GainedWord, AcquiredWord, LearnedWord,
      <<"r", "e", "c", "e", "i", "v", "e", "d">>,
      <<"i", "n", "c", "r", "e", "a", "s", "e", "d">>,
      <<"d", "e", "c", "r", "e", "a", "s", "e", "d">>,
      <<"u", "n", "l", "o", "c", "k", "e", "d">> }

IsUpper(c) == LowerChar(c) # c

\* s ends with the word, its first letter in either case
EndsWith(s, word) ==
    /\ Len(s) >= Len(word)
    /\ KeywordIs(SubSeq(s, Len(s) - Len(word) + 1, Len(s)), word)

\* pattern.finditer over one closed annotation with the interior words: the
\* matches of the patterns of one event type.  Every pattern is anchored at
\* both brackets.  The vocabulary has none of the words Removed, Lost, Lv,
\* Change, Consolidation, Consolidated, Spell, Condition, Aspect, Title,
\* Rank and none of the characters -, >, +, so only the patterns below can
\* match a text made of it.
FindIter(event_type, words) ==
    LET n == Len(words)
        s == Join(words)
    IN  CASE event_type = "class_obtained" ->
               IF /\ n >= 3
                  /\ KeywordIs(words[n - 1], ClassWord)
                  /\ KeywordBang(words[n], {ObtainedWord, GainedWord, AcquiredWord})
               THEN << [event_type |-> event_type,
                        groups |-> << Join(SubSeq(words, 1, n - 2)) >>] >>
               ELSE << >>
          [] event_type = "level_up" ->
               IF /\ n >= 3
                  /\ KeywordIs(words[n - 1], LevelWord)
                  /\ DigitsBang(words[n])
               THEN << [event_type |-> event_type,
                        groups |-> << Join(SubSeq(words, 1, n - 2)), DigitsOf(words[n]) >>] >>
               ELSE << >>
          [] event_type = "skill_obtained" ->
               IF /\ n >= 3
                  /\ KeywordIs(words[1], SkillWord \o <<":">>)
                  /\ KeywordBang(words[n], {ObtainedWord, GainedWord, AcquiredWord,
                                            LearnedWord})
               THEN << [event_type |-> event_type,
                        groups |-> << Join(SubSeq(words, 2, n - 1)) >>] >>
               ELSE << >>
          [] event_type = "other" ->
               IF /\ s # << >>
                  /\ IsUpper(s[1])
                  /\ \E word \in OtherEndings :
                        /\ EndsWith(s, word)
                        /\ Len(s) - 1 - Len(word) >= 10
                        /\ Len(s) - 1 - Len(word) <= 150
               THEN << [event_type |-> event_type, groups |-> << s >>] >>
               ELSE << >>
          [] OTHER -> << >>

\* _create_event catches every exception itself and returns None, so the
\* handler of parse_text that appends to parse_errors is never entered
create_event_raises(m) == FALSE

\* the matches of the patterns of one event type in the text, by position
MatchesOf(event_type, text) ==
    Concat([ i \in DOMAIN text.closed |->
               IF text.closed[i].event_type = event_type
               THEN << [m |-> text.closed[i], position |-> i] >> ELSE << >> ])
    \o Concat([ j \in DOMAIN text.brackets |->
                  LET found == FindIter(event_type, text.brackets[j])
                  IN  [ k \in DOMAIN found |->
                          [m |-> found[k], position |-> Len(text.closed) + j] ] ])

\* every match of every pattern, in pattern order
AllMatches(text) ==
    Concat([ k \in DOMAIN PatternOrder |-> MatchesOf(PatternOrder[k], text) ])

\* parse_text: the events of every pattern in pattern order, then those of the
\* incomplete patterns, sorted by position
parse_text(text) ==
    LET matches == AllMatches(text)
        regular ==
          Concat([ k \in DOMAIN matches |->
                     create_event(matches[k].m, matches[k].position) ])
        incomplete ==
          Concat([ i \in DOMAIN text.open |->
                    create_incomplete_event(text.open[i],
                        Len(text.closed) + Len(text.brackets) + i) ])
    IN  SortByPosition(regular \o incomplete)

\* self.parse_errors after parse_text: one entry per match whose
\* _create_event raised
parse_errors(text) ==
    LET matches == AllMatches(text)
    IN  Concat([ k \in DOMAIN matches |->
                   IF create_event_raises(matches[k].m)
                   THEN << [position |-> matches[k].position,
                            event_type |-> matches[k].m.event_type] >>
                   ELSE << >> ])

\* _validate_event
validate_event_data(event) ==
    LET d == event.parsed_data IN
    IF event.event_type = "class_obtained"
    THEN LET class_name == IF "class_name" \in DOMAIN d THEN d.class_name ELSE << >>
         IN  ~(Len(class_name) < 3 \/ Len(class_name) > 100)
    ELSE IF event.event_type = "level_up"
    THEN LET level == IF "level" \in DOMAIN d THEN d.level ELSE 0
         IN  ~(level < 1 \/ level > 100)
    ELSE IF event.event_type \in {"skill_obtained", "spell_obtained"}
    THEN LET name == IF "skill_name" \in DOMAIN d /\ d.skill_name # << >>
                     THEN d.skill_name
                     ELSE IF "spell_name" \in DOMAIN d THEN d.spell_name ELSE << >>
         IN  ~(Len(name) < 3 \/ Len(name) > 200)
    ELSE TRUE

\* parse_and_validate
parse_and_validate(text) == SelectSeq(parse_text(text), validate_event_data)

ParseInit ==
    /\ wiki = LoadedWiki
    /\ registry = IdleRegistry
    /\ proc = IdleProc
    /\ events = << >>
    /\ reply = [kind |-> "none", attrs |-> << >>]
    /\ syncOut = Pending
    /\ bulkOut = Pending
    /\ svc = NoService /\ job = NoJob /\ reqs = << >>
    /\ raw_events = [e \in 1..MaxEvents |-> Unattributed]
    /\ chapter_state = << >>
    /\ waiter = IdleWaiter /\ clock = 0
    /\ lastRun = NoRun /\ submitOut = NoSubmit
    /\ sender = IdleSender /\ saver = IdleSaver
    /\ parser \in { [IdleParser EXCEPT !.text = t] : t \in Texts }

ParseText ==
    /\ parser.parsed.status = "pending"
    /\ parser' = [parser EXCEPT !.parsed = [status |-> "returned",
                                            events |-> parse_text(parser.text),
                                            parse_errors |-> parse_errors(parser.text)]]
    /\ UNCHANGED <<proc, registry, wiki, attrVars, batchVars, sender, saver>>

ParseAndValidate ==
    /\ parser.validated.status = "pending"
    /\ parser' = [parser EXCEPT !.validated = [status |-> "returned",
                                               events |-> parse_and_validate(parser.text),
                                               parse_errors |-> parse_errors(parser.text)]]
    /\ UNCHANGED <<proc, registry, wiki, attrVars, batchVars, sender, saver>>

ParseNext == ParseText \/ ParseAndValidate

SpecParse == ParseInit /\ [][ParseNext]_vars

NameKeys ==
    { "class_name", "old_class", "new_class", "skill_name", "old_skill", "new_skill",
      "spell_name", "condition_name", "aspect_name", "title_name", "rank_type",
      "content" }

NumberKeys == {"level", "rank_number"}

\* the payload of an event has its names non-empty after trimming and its
\* numbers positive
PayloadComplete(e) ==
    LET d == e.parsed_data IN
    /\ \A k \in (DOMAIN d) \cap NameKeys : strip(d[k]) # << >>
    /\ \A k \in (DOMAIN d) \cap NumberKeys : d[k] > 0
    /\ "old_classes" \in DOMAIN d =>
          \A i \in DOMAIN d.old_classes : strip(d.old_classes[i]) # << >>

\* C19: every event parse_and_validate returns has the required payload
\* fields of its type non-empty: names non-empty after trimming, level and
\* rank numbers positive.
C19_PayloadNonEmpty ==
    \A i \in DOMAIN parser.validated.events :
       PayloadComplete(parser.validated.events[i])

\* C20: an unclosed class, skill or level bracket at the end of the text is in
\* the output of parse_and_validate as an event with is_incomplete = TRUE.
C20_IncompleteKept ==
    (parser.validated.status = "returned" /\ parser.text.open # << >>) =>
        \E i \in DOMAIN parser.validated.events :
           /\ parser.validated.events[i].is_incomplete
           /\ parser.validated.events[i].position
                = Len(parser.text.closed) + Len(parser.text.brackets) + 1

----------------------------------------------------------------------------
(* Event parser over annotations given by their words *)

\* the texts with one closed annotation of at most MaxWords words
WordTexts ==
    { [closed |-> << >>, brackets |-> <<w>>, open |-> << >>] : w \in Interiors(MaxWords) }

ScanInit ==
    /\ wiki = LoadedWiki
    /\ registry = IdleRegistry
    /\ proc = IdleProc
    /\ events = << >>
    /\ reply = [kind |-> "none", attrs |-> << >>]
    /\ syncOut = Pending
    /\ bulkOut = Pending
    /\ svc = NoService /\ job = NoJob /\ reqs = << >>
    /\ raw_events = [e \in 1..MaxEvents |-> Unattributed]
    /\ chapter_state = << >>
    /\ waiter = IdleWaiter /\ clock = 0
    /\ lastRun = NoRun /\ submitOut = NoSubmit
    /\ sender = IdleSender /\ saver = IdleSaver
    /\ parser \in { [IdleParser EXCEPT !.text = t] : t \in WordTexts }

SpecScan == ScanInit /\ [][ParseNext]_vars

IsAlpha(c) == c \notin {"0", "1", "5", "!", ":", " "}

\* the number of words of an interior that have a letter
AlphaWords(words) ==
    Cardinality({ i \in DOMAIN words : \E k \in DOMAIN words[i] : IsAlpha(words[i][k]) })

\* the events parse_text emitted for the annotation at a position
EventsAt(position) ==
    { i \in DOMAIN parser.parsed.events : parser.parsed.events[i].position = position }

\* C22: a bracket whose interior is a single word yields no event, and a
\* closed bracket whose interior has three or more words yields an event.
C22_WordCountDecides ==
    parser.parsed.status = "returned" =>
        \A j \in DOMAIN parser.text.brackets :
           /\ AlphaWords(parser.text.brackets[j]) = 1
                 => EventsAt(Len(parser.text.closed) + j) = {}
           /\ AlphaWords(parser.text.brackets[j]) >= 3
                 => EventsAt(Len(parser.text.closed) + j) # {}

\* C25: parse_text emits at most one event for every bracketed span.
C25_OneEventPerSpan ==
    parser.parsed.status = "returned" =>
        \A j \in DOMAIN parser.text.brackets :
           Cardinality(EventsAt(Len(parser.text.closed) + j)) <= 1

\* the matches of the text that _create_event dropped
DroppedMatches ==
    LET matches == AllMatches(parser.text)
    IN  { k \in DOMAIN matches :
            create_event(matches[k].m, matches[k].position) = << >> }

\* C26: a matched candidate that is dropped for an empty or invalid field is
\* recorded in parse_errors: after parse_text the tally has one entry per
\* dropped candidate.
C26_DropsTallied ==
    parser.parsed.status = "returned" =>
        Len(parser.parsed.parse_errors) = Cardinality(DroppedMatches)

----------------------------------------------------------------------------
(* Population of the wiki reference cache by several workers               *)
(* (ai/wiki_reference.py: get_wiki_cache, load, _load_characters,          *)
(* find_character).  A worker is a caller of get_wiki_cache() followed by  *)
(* find_character(name); workers interleave between the statements of the  *)
(* code.  A loader whose query fails logs the error and leaves its tables  *)
(* as they are.  _load_spells fills a table no lookup of the model reads   *)
(* and is left out.                                                        *)

\* the names a worker looks up
LookupNames == {"Erin", "ERIN", "erin", "Innkeeper", "INNKEEPER", "Lyonette", "Nobody"}

\* the instance worker k holds
CacheOf(k) == registry.caches[registry.w[k].inst]

\* self._characters[name.lower()] = char
put_character(c, row) ==
    [ c EXCEPT !.characters =
        [ n \in DOMAIN c.characters \cup {Lower(row.name)} |->
            IF n = Lower(row.name) THEN row ELSE c.characters[n] ] ]

\* for alias in aliases: self._character_aliases[alias.lower()] = name
put_aliases(c, row) ==
    [ c EXCEPT !.character_aliases =
        [ a \in DOMAIN c.character_aliases \cup { Lower(x) : x \in row.aliases } |->
            IF a \in { Lower(x) : x \in row.aliases } THEN row.name
            ELSE c.character_aliases[a] ] ]

\* get_wiki_cache: the test `_wiki_cache is None`
GetWikiCacheTest(k, name) ==
    /\ registry.w[k].pc = "idle"
    /\ registry' = [ registry EXCEPT
            !.w[k].name = name,
            !.w[k].pc = IF registry.global = 0 THEN "create" ELSE "return" ]
    /\ UNCHANGED <<proc, wiki, attrVars, batchVars, sender, saver, parser>>

\* get_wiki_cache: _wiki_cache = WikiReferenceCache()
GetWikiCacheCreate(k) ==
    /\ registry.w[k].pc = "create"
    /\ registry' = [ registry EXCEPT
            !.global = k,
            !.caches[k] = EmptyWiki,
            !.w[k].pc = "return" ]
    /\ UNCHANGED <<proc, wiki, attrVars, batchVars, sender, saver, parser>>

\* get_wiki_cache: return _wiki_cache
GetWikiCacheReturn(k) ==
    /\ registry.w[k].pc = "return"
    /\ registry' = [ registry EXCEPT
            !.w[k].inst = registry.global,
            !.w[k].pc = "load" ]
    /\ UNCHANGED <<proc, wiki, attrVars, batchVars, sender, saver, parser>>

\* find_character -> load: `if self._loaded: return`
load(k) ==
    /\ registry.w[k].pc = "load"
    /\ registry' = [ registry EXCEPT
            !.w[k].pc = IF CacheOf(k).loaded THEN "lookup" ELSE "characters" ]
    /\ UNCHANGED <<proc, wiki, attrVars, batchVars, sender, saver, parser>>

\* _load_characters: get_connection, execute, fetchall; a failure is logged
\* and the loader returns
FetchCharacters(k, ok) ==
    /\ registry.w[k].pc = "characters"
    /\ registry.w[k].todo = << >>
    /\ registry' = [ registry EXCEPT
            !.w[k].todo = IF ok THEN RegistryRows ELSE << >>,
            !.w[k].pc = IF ok THEN "row" ELSE "skills" ]
    /\ UNCHANGED <<proc, wiki, attrVars, batchVars, sender, saver, parser>>

\* _load_characters: the first statement of the loop body
IndexCharacter(k) ==
    /\ registry.w[k].pc = "row"
    /\ registry' = [ registry EXCEPT
            !.caches[registry.w[k].inst] = put_character(@, Head(registry.w[k].todo)),
            !.w[k].pc = "aliases" ]
    /\ UNCHANGED <<proc, wiki, attrVars, batchVars, sender, saver, parser>>

\* _load_characters: the alias loop of the row, then the next row
IndexAliases(k) ==
    /\ registry.w[k].pc = "aliases"
    /\ registry' = [ registry EXCEPT
            !.caches[registry.w[k].inst] = put_aliases(@, Head(registry.w[k].todo)),
            !.w[k].todo = Tail(@),
            !.w[k].pc = IF Tail(registry.w[k].todo) = << >> THEN "skills" ELSE "row" ]
    /\ UNCHANGED <<proc, wiki, attrVars, batchVars, sender, saver, parser>>

\* _load_skills
LoadSkillsStep(k, ok) ==
    /\ registry.w[k].pc = "skills"
    /\ registry' = [ registry EXCEPT
            !.caches[registry.w[k].inst] = IF ok THEN LoadSkills(@, WikiSkillRows) ELSE @,
            !.w[k].pc = "classes" ]
    /\ UNCHANGED <<proc, wiki, attrVars, batchVars, sender, saver, parser>>

\* _load_classes
LoadClassesStep(k, ok) ==
    /\ registry.w[k].pc = "classes"
    /\ registry' = [ registry EXCEPT
            !.caches[registry.w[k].inst] = IF ok THEN LoadClasses(@, WikiClassRows) ELSE @,
            !.w[k].pc = "loaded" ]
    /\ UNCHANGED <<proc, wiki, attrVars, batchVars, sender, saver, parser>>

\* load: self._loaded = True
SetLoaded(k) ==
    /\ registry.w[k].pc = "loaded"
    /\ registry' = [ registry EXCEPT
            !.caches[registry.w[k].inst].loaded = TRUE,
            !.w[k].pc = "lookup" ]
    /\ UNCHANGED <<proc, wiki, attrVars, batchVars, sender, saver, parser>>

\* find_character after load(): the two dictionary lookups; seen is the set of
\* keys of _characters at that moment
FindCharacter(k) ==
    /\ registry.w[k].pc = "lookup"
    /\ registry' = [ registry EXCEPT
            !.w[k].result = [ status |-> "returned",
                              value  |-> find_character(CacheOf(k), registry.w[k].name) ],
            !.w[k].seen = DOMAIN CacheOf(k).characters,
            !.w[k].pc = "done" ]
    /\ UNCHANGED <<proc, wiki, attrVars, batchVars, sender, saver, parser>>

RegistryInit ==
    /\ wiki = LoadedWiki
    /\ registry = IdleRegistry
    /\ proc = IdleProc
    /\ events = << >>
    /\ reply = [kind |-> "none", attrs |-> << >>]
    /\ syncOut = Pending
    /\ bulkOut = Pending
    /\ svc = NoService /\ job = NoJob /\ reqs = << >>
    /\ raw_events = [e \in 1..MaxEvents |-> Unattributed]
    /\ chapter_state = << >>
    /\ waiter = IdleWaiter /\ clock = 0
    /\ lastRun = NoRun /\ submitOut = NoSubmit
    /\ sender = IdleSender /\ saver = IdleSaver
    /\ parser = IdleParser

RegistryNext ==
    \E k \in Workers :
        \/ \E name \in LookupNames : GetWikiCacheTest(k, name)
        \/ GetWikiCacheCreate(k)
        \/ GetWikiCacheReturn(k)
        \/ load(k)
        \/ \E ok \in BOOLEAN : FetchCharacters(k, ok)
        \/ IndexCharacter(k)
        \/ IndexAliases(k)
        \/ \E ok \in BOOLEAN : LoadSkillsStep(k, ok)
        \/ \E ok \in BOOLEAN : LoadClassesStep(k, ok)
        \/ SetLoaded(k)
        \/ FindCharacter(k)

SpecRegistry == RegistryInit /\ [][RegistryNext]_vars

\* every alias of the alias table names an indexed character
AliasesResolve(c) ==
    \A a \in DOMAIN c.character_aliases :
        Lower(c.character_aliases[a]) \in DOMAIN c.characters

\* two spellings of a name that differ only in case get the same answer
CaseInsensitive(c) ==
    \A n1, n2 \in LookupNames :
        Lower(n1) = Lower(n2) => find_character(c, n1) = find_character(c, n2)

\* a name that is a canonical name gets the character of that name, also when
\* it is somebody's alias
CanonicalFirst(c) ==
    \A n \in LookupNames :
        Lower(n) \in DOMAIN c.characters =>
            Lower(find_character(c, n).name) = Lower(n)

\* a name that is only an alias gets the character the alias belongs to
AliasSecond(c) ==
    \A n \in LookupNames :
        (Lower(n) \notin DOMAIN c.characters /\ Lower(n) \in DOMAIN c.character_aliases) =>
            /\ find_character(c, n) # NoCharacter
            /\ \E x \in find_character(c, n).aliases : Lower(x) = Lower(n)

\* a name in neither table gets None
MissIsNone(c) ==
    \A n \in LookupNames :
        (Lower(n) \notin DOMAIN c.characters /\ Lower(n) \notin DOMAIN c.character_aliases) =>
            find_character(c, n) = NoCharacter

\* C23: find_character is case-insensitive and looks at canonical names before
\* aliases; every alias of the alias table resolves to an existing canonical
\* entry; a name in neither table returns None without raising, in every
\* state of the cache: empty, half way through a load, and loaded with some
\* loader having failed.
C23_Resolution ==
    /\ \A i \in Workers :
          LET c == registry.caches[i] IN
          /\ AliasesResolve(c)
          /\ CaseInsensitive(c)
          /\ CanonicalFirst(c)
          /\ AliasSecond(c)
          /\ MissIsNone(c)
    /\ \A k \in Workers :
          registry.w[k].pc = "done" =>
             /\ registry.w[k].result.status = "returned"
             /\ ( /\ Lower(registry.w[k].name) \notin DOMAIN CacheOf(k).characters
                  /\ Lower(registry.w[k].name) \notin DOMAIN CacheOf(k).character_aliases )
                => registry.w[k].result.value = NoCharacter

\* a lookup of an unknown name returned None from a cache whose skills loader
\* failed, and a lookup of a name that is both canonical and an alias returned
\* the character of that name
C23_Witness ==
    \E k, j \in Workers :
        /\ registry.w[k].pc = "done" /\ registry.w[k].name = "Nobody"
        /\ registry.w[k].result = [status |-> "returned", value |-> NoCharacter]
        /\ CacheOf(k).loaded /\ CacheOf(k).skills = {}
        /\ registry.w[j].pc = "done" /\ registry.w[j].name = "ERIN"
        /\ registry.w[j].result.value.id = "char_erin"
        /\ "erin" \in DOMAIN CacheOf(j).character_aliases

\* the keys of _characters after a load that read every row
AllCharacterKeys == { Lower(RegistryRows[i].name) : i \in DOMAIN RegistryRows }

\* the instance one worker alone leaves behind, by the loaders that succeeded
SingleLoad(okc, oks, okl) ==
    LET c0 == IF okc
              THEN put_aliases(put_character(put_aliases(put_character(EmptyWiki,
                       RegistryRows[1]), RegistryRows[1]), RegistryRows[2]), RegistryRows[2])
              ELSE EmptyWiki
        c1 == IF oks THEN LoadSkills(c0, WikiSkillRows) ELSE c0
        c2 == IF okl THEN LoadClasses(c1, WikiClassRows) ELSE c1
    IN  [ c2 EXCEPT !.loaded = TRUE ]

\* C28: when several workers populate the cache at the same time, no lookup
\* sees a table that holds some of the rows but not all of them, and when
\* every worker is done the cache holds what a single load leaves behind.
C28_NoPartialRegistry ==
    /\ \A k \in Workers :
          registry.w[k].pc = "done" => registry.w[k].seen \in { {}, AllCharacterKeys }
    /\ (\A k \in Workers : registry.w[k].pc = "done") =>
          registry.caches[registry.global] \in
              { SingleLoad(okc, oks, okl) : okc \in BOOLEAN, oks \in BOOLEAN, okl \in BOOLEAN }

----------------------------------------------------------------------------
(* Dry runs of result processing (ai/batch_processor.py) *)

\* the call of process_*_results that this step makes is a dry run
DryRunStep == lastRun'.runs = lastRun.runs + 1 /\ lastRun'.dry_run

\* what the same call returns from the same state when it is not a dry run
RealRun(metaOk) ==
    ProcessStream(wiki, job.batch_type, get_batch_results(svc).results, 1,
                  ProcessingState(FALSE, metaOk),
                  get_batch_request_metadata(reqs, metaOk), FALSE).run

\* C24: a call of process_event_attribution_results or
\* process_character_extraction_results with dry_run = true leaves events,
\* chapter state, request records and the job record unchanged, and the
\* chapters_processed and events_processed it returns are those a real run
\* returns from the same state.
C24_DryRunFrame ==
    [][ DryRunStep =>
          /\ UNCHANGED <<raw_events, chapter_state, reqs, job>>
          /\ lastRun'.status = "returned" =>
                /\ RealRun(lastRun'.meta_ok).status # "raised"
                /\ RealRun(lastRun'.meta_ok).stats.chapters_processed
                      = lastRun'.stats.chapters_processed
                /\ RealRun(lastRun'.meta_ok).stats.events_processed
                      = lastRun'.stats.events_processed ]_vars

\* a dry run over an ended attribution job returned counts and the store is
\* as submission left it
C24_Witness ==
    /\ lastRun.dry_run /\ lastRun.status = "returned" /\ lastRun.runs = 1
    /\ lastRun.stats.chapters_processed >= 1
    /\ lastRun.stats.events_processed >= 1
    /\ job.batch_type = "event_attribution"
    /\ job.processing_status # "results_processed"
    /\ \A e \in DOMAIN raw_events : raw_events[e] = Unattributed

----------------------------------------------------------------------------
(* process_event_attribution_results statement by statement, with the      *)
(* process stopping at any point (ai/batch_processor.py).  Every store     *)
(* helper opens its own connection and commits its own transaction, so a   *)
(* step of the model is one committed transaction.                         *)

\* where _save_event_attributions fails: nowhere, at get_connection, or at
\* conn.commit() after the loop
SaveOutcomes == {"saved", "no_connection", "commit_failed"}

\* the result the loop is at
CurrentResult == proc.results[proc.i]

\* the call starts: job row read, request metadata read, results stream opened
StartProcessing(metaOk) ==
    /\ proc.pc \in {"idle", "crashed", "done", "raised"}
    /\ proc.calls < MaxRuns
    /\ svc.status = "ended"
    /\ job.batch_id # None
    /\ job.batch_type = "event_attribution"
    /\ proc' = [ proc EXCEPT !.pc = "next", !.i = 1, !.results = svc.results,
                             !.metadata = get_batch_request_metadata(reqs, metaOk),
                             !.attributions = << >>, !.calls = @ + 1 ]
    /\ UNCHANGED <<registry, wiki, attrVars, batchVars, sender, saver, parser>>

\* the head of the loop body: the next result is parsed, or the stream is
\* exhausted
NextResult ==
    /\ proc.pc = "next"
    /\ IF proc.i > Len(proc.results)
       THEN proc' = [proc EXCEPT !.pc = "mark_job", !.complete = TRUE]
       ELSE IF CurrentResult.result_type # "succeeded"
       THEN proc' = [proc EXCEPT !.pc = "mark_request"]
       ELSE LET parsed == parse_event_attribution_result(wiki, CurrentResult,
                              MetaEvents(proc.metadata, CurrentResult.custom_id))
            IN  proc' = IF parsed.status = "raised"
                        THEN [proc EXCEPT !.pc = "raised"]
                        ELSE [proc EXCEPT !.pc = "save", !.attributions = parsed.attrs]
    /\ UNCHANGED <<registry, wiki, attrVars, batchVars, sender, saver, parser>>

\* _save_event_attributions: the UPDATEs of the result in one transaction
SaveEventAttributions(outcome) ==
    /\ proc.pc = "save"
    /\ raw_events' = IF outcome = "saved"
                     THEN save_event_rows(raw_events, proc.attributions, 1)
                     ELSE raw_events
    /\ proc' = [ proc EXCEPT
            !.pc = "chapter",
            !.save_stats = IF outcome = "no_connection"
                           THEN [auto_accepted |-> 0, flagged_review |-> 0]
                           ELSE save_event_stats(proc.attributions),
            !.written = IF outcome = "saved"
                        THEN @ \cup {CurrentResult.custom_id} ELSE @ ]
    /\ UNCHANGED <<registry, wiki, attrVars, svc, job, reqs, chapter_state, waiter, clock,
                   lastRun, submitOut, sender, saver, parser>>

\* `if chapter_id: self._update_chapter_attribution_state(...)`
UpdateChapterAttributionState ==
    /\ proc.pc = "chapter"
    /\ LET chapter_id == MetaChapter(proc.metadata, CurrentResult.custom_id)
           event_ids  == MetaEvents(proc.metadata, CurrentResult.custom_id)
       IN  chapter_state' =
             IF chapter_id = 0 THEN chapter_state
             ELSE update_chapter_attribution_state(chapter_state, chapter_id,
                      Len(event_ids), proc.save_stats.auto_accepted,
                      proc.save_stats.flagged_review)
    /\ proc' = [proc EXCEPT !.pc = "mark_request"]
    /\ UNCHANGED <<registry, wiki, attrVars, svc, job, reqs, raw_events, waiter, clock,
                   lastRun, submitOut, sender, saver, parser>>

\* _update_batch_request_result, for a succeeded and for a failed result
UpdateBatchRequestResult ==
    /\ proc.pc = "mark_request"
    /\ reqs' = update_batch_request_result(reqs, CurrentResult.custom_id,
                   CurrentResult.result_type, CurrentResult.error_message)
    /\ proc' = [proc EXCEPT !.pc = "next", !.i = @ + 1, !.attributions = << >>]
    /\ UNCHANGED <<registry, wiki, attrVars, svc, job, raw_events, chapter_state, waiter,
                   clock, lastRun, submitOut, sender, saver, parser>>

\* _update_batch_job_processed after the loop
UpdateBatchJobProcessed ==
    /\ proc.pc = "mark_job"
    /\ job' = update_batch_job_processed(job)
    /\ proc' = [proc EXCEPT !.pc = "done"]
    /\ UNCHANGED <<registry, wiki, attrVars, svc, reqs, raw_events, chapter_state, waiter,
                   clock, lastRun, submitOut, sender, saver, parser>>

\* the process dies between two statements
Crash ==
    /\ proc.pc \in {"next", "save", "chapter", "mark_request", "mark_job"}
    /\ proc' = [proc EXCEPT !.pc = "crashed"]
    /\ UNCHANGED <<registry, wiki, attrVars, batchVars, sender, saver, parser>>

CrashNext ==
    \/ \E cs \in SUBSET Chapters, dbOk \in BOOLEAN :
          \E n \in RequestCounts(PrepareBatch("event_attribution", cs)) :
              submit_batch("event_attribution", cs, n, dbOk)
    \/ \E rs \in ResultStreams(svc.requests, svc.batch_type) : ServiceEnds(rs)
    \/ \E metaOk \in BOOLEAN : StartProcessing(metaOk)
    \/ NextResult
    \/ \E outcome \in SaveOutcomes : SaveEventAttributions(outcome)
    \/ UpdateChapterAttributionState
    \/ UpdateBatchRequestResult
    \/ UpdateBatchJobProcessed
    \/ Crash

SpecCrash == BatchInit /\ [][CrashNext]_vars

\* the row of an event holds every column of an attribution or none
WholeRow(row) ==
    \/ row = Unattributed
    \/ row.event_type # None /\ row.ai_confidence # NullConfidence /\ row.ai_reasoning # None

\* C27: a request is marked result_processed only after the attributions of
\* its result were written; the job is marked processed only after every
\* result of the stream was handled; wherever the process stops, every event
\* row is fully updated or untouched.
C27_MarkedAfterWritten ==
    /\ \A cid \in DOMAIN reqs :
          (reqs[cid].result_processed /\ reqs[cid].result_type = "succeeded")
              => cid \in proc.written
    /\ job.results_processed_at => proc.complete
    /\ \A e \in DOMAIN raw_events : WholeRow(raw_events[e])

----------------------------------------------------------------------------
(* Submission (ai/batch_processor.py: submit_batch) *)

\* C29: after submit_batch returned or raised, either the job exists at the
\* service and the store holds its job row and one request row per request,
\* or neither the job nor any row exists: the service never holds a job the
\* store has no record of.
C29_SubmitAllOrNothing ==
    submitOut.status # "none" =>
        \/ /\ svc.status # "none"
           /\ job.batch_id # None
           /\ Cardinality(DOMAIN reqs) = Len(svc.requests)
        \/ /\ svc.status = "none"
           /\ job.batch_id = None
           /\ reqs = << >>

----------------------------------------------------------------------------
(* The polling loop under fairness (ai/batch_client.py: wait_for_batch).   *)
(* The loop is a `while True` of the calling thread, so a pass that can    *)
(* run does run; that the service finishes the job is the premise of the   *)
(* guarantee.                                                              *)

SpecWaitFair ==
    /\ BatchInit
    /\ [][WaitNext]_vars
    /\ WF_vars(WaitPoll(TRUE))
    /\ WF_vars(ServiceEnds(PlainResults(svc.requests)))

\* the call is over: it returned the job or raised
WaitOver(w) == w.pc \in {"returned", "timed_out", "failed"}

\* the call ends only in a pass of the loop, never at entry: it has polled
EndsInAPoll ==
    [][ (WaitOver(waiter') /\ waiter' # waiter) => waiter.pc = "polling" ]_vars

\* a pass whose poll reported ended returns the job, whatever the clock says
EndedReturns ==
    [][ (waiter.pc = "polling" /\ waiter'.pc \in {"returned", "timed_out"})
           => (svc.status = "ended" <=> waiter'.pc = "returned") ]_vars

\* the timeout is raised only when one is set and has elapsed
TimeoutOnlyElapsed ==
    [][ (waiter.pc = "polling" /\ waiter'.pc = "timed_out")
           => /\ waiter.timeout # 0
              /\ (clock - waiter.start_time) > waiter.timeout ]_vars

\* without a timeout the call comes to an end once the service ends the job:
\* it returns, unless a status retrieval raised
NoTimeoutReturns ==
    (waiter.pc = "polling" /\ waiter.timeout = 0)
        ~> (waiter.pc = "returned" \/ waiter.pc = "failed")

\* C30: wait_for_batch polls at least once; it returns the job whenever a
\* poll reports ended, also when the timeout has elapsed at that poll; it
\* raises the timeout only after a poll that reported a job still running;
\* with no timeout set and a service that eventually reports ended it
\* eventually returns.
C30_WaitForBatch ==
    /\ EndsInAPoll
    /\ EndedReturns
    /\ TimeoutOnlyElapsed
    /\ NoTimeoutReturns

\* the call returned the job at a poll at which its timeout had elapsed
C30_Witness ==
    /\ waiter.pc = "returned"
    /\ waiter.timeout # 0
    /\ (clock - waiter.start_time) > waiter.timeout
    /\ svc.status = "ended"

====
